---- MODULE Spec2Model ----
(***************************************************************************)
(* State-space search engine of the cube solver (search_algorithm.py):     *)
(* move catalog, transition cache, heuristic evaluator, knowledge-base     *)
(* builder and the search strategies of AdaptiveSearchEngine.              *)
(*                                                                         *)
(* A puzzle state is the exported facelet string of an n x n x n cube:    *)
(* a sequence of 6*n*n colours, face-major, then row, then column.         *)
(* A move is the triple <<move_type, layer, direction>>.                   *)
(* Sequences built by a comprehension are passed through SubSeq, which     *)
(* yields the explicit tuple.                                              *)
(* A search result is ResultPath(p) for a returned list p and ResultNone   *)
(* for a returned None.                                                    *)
(***************************************************************************)
EXTENDS Integers, Sequences, FiniteSets, TLC

VARIABLES
    heuristic_db,       \* self.heuristic_db: state -> distance
    depth_ceiling,      \* self.depth_ceiling
    current_threshold,  \* self.current_threshold
    next_threshold,     \* self.next_threshold (None, inf or a number)
    solution_path,      \* self.solution_path
    visited_states,     \* self.visited_states: set of <<state, g mod 4>>
    move_cache,         \* self.move_cache: (state, move) -> new_state, in insertion order
    nodes_expanded,     \* self.nodes_expanded
    cache_hits,         \* self.cache_hits
    heuristic_hits,     \* self.heuristic_hits
    last_call           \* the entry point called last, its arguments and what it returned

vars == <<heuristic_db, depth_ceiling, current_threshold, next_threshold, solution_path,
          visited_states, move_cache, nodes_expanded, cache_hits, heuristic_hits, last_call>>

(***************************************************************************)
(* Bounds of the model.                                                    *)
(***************************************************************************)
Sizes == {1, 2, 3}      \* puzzle sizes
MaxDepthLimit == 4      \* largest depth_limit an engine is constructed with

Range(seq) == {seq[i] : i \in DOMAIN seq}

Max2(a, b) == IF a >= b THEN a ELSE b

Min2(a, b) == IF a <= b THEN a ELSE b

\* `name = value` followed by the statements of Body, which read name
Bind(value, Body(_)) == Body(value)

(***************************************************************************)
(* Move catalog.                                                           *)
(***************************************************************************)
MoveTypes == <<"horizontal", "vertical", "sideways">>

\* a slip: the direction alternates with the position instead of with the layer block
_generate_all_moves_alternating(puzzle_size) ==
    SubSeq([k \in 1..(6 * puzzle_size) |->
               <<MoveTypes[((k - 1) \div (2 * puzzle_size)) + 1],
                 (k - 1) % puzzle_size,
                 (k - 1) % 2>>],
           1, 6 * puzzle_size)

\* for move_type in [...] for direction in [0, 1] for layer in range(puzzle_size)
_generate_all_moves(puzzle_size) ==
    SubSeq([k \in 1..(6 * puzzle_size) |->
               <<MoveTypes[((k - 1) \div (2 * puzzle_size)) + 1],
                 (k - 1) % puzzle_size,
                 ((k - 1) \div puzzle_size) % 2>>],
           1, 6 * puzzle_size)

\* a slip: the direction is not flipped
_get_inverse_move_unflipped(move) == <<move[1], move[2], move[3]>>

_get_inverse_move(move) == <<move[1], move[2], 1 - move[3]>>

RECURSIVE _reverse_path(_)
_reverse_path(path) ==
    IF path = <<>> THEN <<>>
    ELSE <<_get_inverse_move(path[Len(path)])>> \o _reverse_path(SubSeq(path, 1, Len(path) - 1))

(***************************************************************************)
(* Puzzle model (puzzle_engine.CubicPuzzle).  Faces 0..5, rows and columns *)
(* 0..n-1; each rotation is given by the facelet a position receives.      *)
(***************************************************************************)
PuzzleSize(state) == CHOOSE n \in Sizes : 6 * n * n = Len(state)

FaceletIndex(n, f, r, c) == f * n * n + r * n + c + 1

\* CubicPuzzle(dimension=n).export_state(): every face holds its own colour
CubicPuzzle(dimension) ==
    SubSeq([i \in 1..(6 * dimension * dimension) |-> (i - 1) \div (dimension * dimension)],
           1, 6 * dimension * dimension)

\* puzzle.matrix[face][row][col]
Matrix(state, f, r, c) == state[FaceletIndex(PuzzleSize(state), f, r, c)]

is_completion_achieved(state) == state = CubicPuzzle(PuzzleSize(state))

Clockwise(n, f, r, c) == <<f, n - 1 - c, r>>

CounterClockwise(n, f, r, c) == <<f, c, n - 1 - r>>

execute_horizontal_rotation(n, layer, direction, f, r, c) ==
    IF f \in 1..4 /\ r = layer
    THEN <<IF direction = 0 THEN (f % 4) + 1 ELSE ((f + 2) % 4) + 1, r, c>>
    ELSE IF (f = 0 /\ layer = 0) \/ (f = 5 /\ layer = n - 1 /\ layer # 0)
    THEN IF direction = 0 THEN Clockwise(n, f, r, c) ELSE CounterClockwise(n, f, r, c)
    ELSE <<f, r, c>>

execute_vertical_rotation(n, layer, direction, f, r, c) ==
    IF f \in {0, 2, 5} /\ c = layer
    THEN IF direction = 0
         THEN (IF f = 0 THEN <<4, n - 1 - r, n - 1 - c>>
               ELSE IF f = 2 THEN <<0, r, c>> ELSE <<2, r, c>>)
         ELSE (IF f = 0 THEN <<2, r, c>>
               ELSE IF f = 2 THEN <<5, r, c>> ELSE <<4, n - 1 - r, n - 1 - c>>)
    ELSE IF f = 4 /\ c = n - 1 - layer
    THEN <<IF direction = 0 THEN 5 ELSE 0, n - 1 - r, n - 1 - c>>
    ELSE IF (f = 1 /\ layer = 0) \/ (f = 3 /\ layer = n - 1 /\ layer # 0)
    THEN IF direction = 0 THEN CounterClockwise(n, f, r, c) ELSE Clockwise(n, f, r, c)
    ELSE <<f, r, c>>

execute_lateral_rotation(n, layer, direction, f, r, c) ==
    IF (f = 0 /\ r = layer) \/ (f = 1 /\ c = layer)
       \/ (f = 3 /\ c = n - 1 - layer) \/ (f = 5 /\ r = n - 1 - layer)
    THEN IF direction = 0
         THEN <<(CASE f = 0 -> 3 [] f = 1 -> 0 [] f = 3 -> 5 [] f = 5 -> 1), c, n - 1 - r>>
         ELSE <<(CASE f = 0 -> 1 [] f = 1 -> 5 [] f = 3 -> 0 [] f = 5 -> 3), n - 1 - c, r>>
    ELSE IF (f = 4 /\ layer = 0) \/ (f = 2 /\ layer = n - 1 /\ layer # 0)
    THEN IF direction = 0 THEN Clockwise(n, f, r, c) ELSE CounterClockwise(n, f, r, c)
    ELSE <<f, r, c>>

\* the facelet index each position of a size-n puzzle receives under each move
RotationTable ==
    [n \in Sizes |->
        [move \in Range(_generate_all_moves(n)) |->
            SubSeq([i \in 1..(6 * n * n) |->
                       LET f == (i - 1) \div (n * n)
                           r == ((i - 1) % (n * n)) \div n
                           c == (i - 1) % n
                           src == CASE move[1] = "horizontal" ->
                                           execute_horizontal_rotation(n, move[2], move[3], f, r, c)
                                    [] move[1] = "vertical" ->
                                           execute_vertical_rotation(n, move[2], move[3], f, r, c)
                                    [] move[1] = "sideways" ->
                                           execute_lateral_rotation(n, move[2], move[3], f, r, c)
                       IN FaceletIndex(n, src[1], src[2], src[3])],
                   1, 6 * n * n)]]

\* CubicPuzzle(configuration=state), one rotation of a layer of the puzzle,
\* export_state().  The rotation of a layer the puzzle has not is outside the
\* puzzle's contract: here it leaves the puzzle as it is; a call in which it
\* raises instead is a separate outcome of the step that makes it.
Rotate(state, move_type, layer, direction) ==
    LET n == PuzzleSize(state)
    IN IF layer \notin 0..(n - 1) THEN state
       ELSE SubSeq([i \in 1..Len(state) |->
                       state[RotationTable[n][<<move_type, layer, direction>>][i]]],
                   1, Len(state))

\* the puzzle after the moves of path, applied in order
RECURSIVE ApplyPath(_, _)
ApplyPath(state, path) ==
    IF path = <<>> THEN state
    ELSE ApplyPath(Rotate(state, Head(path)[1], Head(path)[2], Head(path)[3]), Tail(path))

\* a slip: the direction handed to the rotation is the opposite one
_apply_move_opposite(state, move) ==
    LET move_type == move[1]
        layer == move[2]
        direction == move[3]
    IN IF move_type = "horizontal" THEN Rotate(state, "horizontal", layer, 1 - direction)
       ELSE IF move_type = "vertical" THEN Rotate(state, "vertical", layer, 1 - direction)
       ELSE IF move_type = "sideways" THEN Rotate(state, "sideways", layer, 1 - direction)
       ELSE state

\* puzzle = CubicPuzzle(configuration=state); self._apply_move(puzzle, move);
\* puzzle.export_state()
_apply_move(state, move) ==
    LET move_type == move[1]
        layer == move[2]
        direction == move[3]
    IN IF move_type = "horizontal" THEN Rotate(state, "horizontal", layer, direction)
       ELSE IF move_type = "vertical" THEN Rotate(state, "vertical", layer, direction)
       ELSE IF move_type = "sideways" THEN Rotate(state, "sideways", layer, direction)
       ELSE state

(***************************************************************************)
(* Engine object.  The operators below take the engine fields as a record  *)
(* `self` and return the record [self |-> fields afterwards, ret |-> the   *)
(* returned value].                                                        *)
(***************************************************************************)
ResultNone == [tag |-> "none", path |-> <<>>]

ResultPath(p) == [tag |-> "path", path |-> p]

\* Python truthiness of a returned value: None and [] are both false
Truthy(result) == result.tag = "path" /\ result.path # <<>>

\* self.next_threshold is None, float('inf') or a number.
NoThreshold == [kind |-> "none", val |-> 0]

Infinity == [kind |-> "inf", val |-> 0]

Finite(v) == [kind |-> "int", val |-> v]

\* A dict keyed by (state, move) is the record [entries |-> its <<cache_key, new_state>>
\* pairs in insertion order, keys |-> the set of its keys].
EmptyCache == [served |-> <<1, 0>>, entries |-> <<>>, keys |-> {}]

\* AdaptiveSearchEngine(knowledge_base, depth_limit)
__init__(knowledge_base, depth_limit) ==
    [heuristic_db |-> knowledge_base,
     depth_ceiling |-> depth_limit,
     current_threshold |-> depth_limit,
     next_threshold |-> NoThreshold,
     solution_path |-> <<>>,
     visited_states |-> {},
     move_cache |-> EmptyCache,
     nodes_expanded |-> 0,
     cache_hits |-> 0,
     heuristic_hits |-> 0]

_reset_performance_counters(self) ==
    [self EXCEPT !.nodes_expanded = 0, !.cache_hits = 0, !.heuristic_hits = 0,
                 !.visited_states = {}]

(***************************************************************************)
(* Transition cache.                                                       *)
(***************************************************************************)
max_cache_size == 50000

\* temp_puzzle = CubicPuzzle(dimension=3)
BidirectionalSize == 3

\* the layer turned `times` quarter turns
Turned(state, move_type, layer, times) ==
    IF times = 0 THEN state
    ELSE IF times = 1 THEN Rotate(state, move_type, layer, 0)
    ELSE IF times = 2 THEN Rotate(Rotate(state, move_type, layer, 0), move_type, layer, 0)
    ELSE Rotate(state, move_type, layer, 1)

\* The states an engine in long use has been asked about: the size-3 goal
\* with its horizontal layers turned (j \div 4^l) % 4 times for l = 0, 1, 2
\* and then its vertical layers (j \div 4^(3 + l)) % 4 times, j = 0 .. 4095.
SeenStates ==
    SubSeq([j \in 1..4096 |->
               Turned(Turned(Turned(Turned(Turned(Turned(CubicPuzzle(BidirectionalSize),
                   "horizontal", 0, (j - 1) % 4),
                   "horizontal", 1, ((j - 1) \div 4) % 4),
                   "horizontal", 2, ((j - 1) \div 16) % 4),
                   "vertical", 0, ((j - 1) \div 64) % 4),
                   "vertical", 1, ((j - 1) \div 256) % 4),
                   "vertical", 2, ((j - 1) \div 1024) % 4)],
           1, 4096)

SeenMoves == _generate_all_moves(BidirectionalSize)

\* the cache key of the k-th miss such an engine served; the state stored
\* for it is the one _apply_move gives
ServedKey(k) ==
    <<SeenStates[((k - 1) \div Len(SeenMoves)) + 1], SeenMoves[((k - 1) % Len(SeenMoves)) + 1]>>

\* self.move_cache, a dictionary in insertion order: the entries of the keys
\* ServedKey(served[1]) .. ServedKey(served[2]), inserted before the
\* behaviour starts, and after them `entries`; keys holds the keys of `entries`.
\* list(self.move_cache.keys())
CacheKeys(cache) ==
    SubSeq([k \in 1..cache.served[2] |-> ServedKey(k)], cache.served[1], cache.served[2])
        \o SubSeq([i \in DOMAIN cache.entries |-> cache.entries[i][1]],
                  1, Len(cache.entries))

\* len(self.move_cache)
CacheLen(cache) == (cache.served[2] - cache.served[1] + 1) + Len(cache.entries)

\* the k with ServedKey(k) = cache_key, 0 if there is none
ServedPlace(cache_key) ==
    IF /\ \E j \in DOMAIN SeenStates : SeenStates[j] = cache_key[1]
       /\ \E m \in DOMAIN SeenMoves : SeenMoves[m] = cache_key[2]
    THEN ((CHOOSE j \in DOMAIN SeenStates : SeenStates[j] = cache_key[1]) - 1) * Len(SeenMoves)
             + (CHOOSE m \in DOMAIN SeenMoves : SeenMoves[m] = cache_key[2])
    ELSE 0

\* cache_key in self.move_cache
CacheHas(cache, cache_key) ==
    \/ cache_key \in cache.keys
    \/ /\ cache.served[1] <= cache.served[2]
       /\ ServedPlace(cache_key) \in cache.served[1]..cache.served[2]

\* self.move_cache[cache_key]
CacheLookup(cache, cache_key) ==
    IF cache_key \in cache.keys
    THEN cache.entries[CHOOSE i \in DOMAIN cache.entries : cache.entries[i][1] = cache_key][2]
    ELSE _apply_move(cache_key[1], cache_key[2])

\* a slip: nothing is removed
CacheEvict_nothing(cache, count) == cache

\* a slip: the latest entries are removed
CacheEvict_latest(cache, count) ==
    Bind(Min2(count, Len(cache.entries)), LAMBDA after :
        Bind(SubSeq(cache.entries, 1, Len(cache.entries) - after), LAMBDA kept :
            [served |-> <<cache.served[1], cache.served[2] - (count - after)>>,
             entries |-> kept,
             keys |-> {kept[i][1] : i \in DOMAIN kept}]))

\* del self.move_cache[key] for the first `count` keys
CacheEvict(cache, count) ==
    Bind(Min2(count, cache.served[2] - cache.served[1] + 1), LAMBDA before :
        Bind(SubSeq(cache.entries, count - before + 1, Len(cache.entries)), LAMBDA kept :
            [served |-> <<cache.served[1] + before, cache.served[2]>>,
             entries |-> kept,
             keys |-> {kept[i][1] : i \in DOMAIN kept}]))

CacheStore(cache, cache_key, new_state) ==
    [cache EXCEPT !.entries = Append(@, <<cache_key, new_state>>),
                  !.keys = @ \cup {cache_key}]

_get_next_state(self, state, move) ==
    LET cache_key == <<state, move>>
    IN IF CacheHas(self.move_cache, cache_key)
       THEN [self |-> [self EXCEPT !.cache_hits = @ + 1],
             ret |-> CacheLookup(self.move_cache, cache_key)]
       ELSE Bind(_apply_move(state, move), LAMBDA new_state :
                [self |-> [self EXCEPT !.move_cache =
                            IF CacheLen(self.move_cache) < max_cache_size
                            THEN CacheStore(@, cache_key, new_state)
                            ELSE CacheStore(CacheEvict(@, max_cache_size \div 4),
                                            cache_key, new_state)],
                 ret |-> new_state])

(***************************************************************************)
(* Heuristic evaluator.                                                    *)
(***************************************************************************)
Faces == 0..5

\* number of (face, position) pairs of `positions` whose facelet differs from the solved one
Misplaced(state, positions) ==
    LET solved == CubicPuzzle(PuzzleSize(state))
        differs(f, k) == IF Matrix(state, f, positions[k][1], positions[k][2])
                            # Matrix(solved, f, positions[k][1], positions[k][2])
                         THEN 1 ELSE 0
        onFace(f) == LET S[k \in 0..Len(positions)] ==
                             IF k = 0 THEN 0 ELSE S[k - 1] + differs(f, k)
                     IN S[Len(positions)]
        T[f \in 0..6] == IF f = 0 THEN 0 ELSE T[f - 1] + onFace(f - 1)
    IN T[6]

_manhattan_distance_heuristic(state) ==
    LET n == PuzzleSize(state)
        all == [k \in 1..(n * n) |-> <<(k - 1) \div n, (k - 1) % n>>]
    IN Max2(1, Misplaced(state, all) \div 4)

_corner_heuristic(state) ==
    LET n == PuzzleSize(state)
        corner_positions == <<<<0, 0>>, <<0, n - 1>>, <<n - 1, 0>>, <<n - 1, n - 1>>>>
    IN Max2(0, Misplaced(state, corner_positions) \div 6)

_edge_heuristic(state) ==
    LET n == PuzzleSize(state)
        mid == n \div 2
        edge_positions == <<<<0, mid>>, <<mid, 0>>, <<mid, n - 1>>, <<n - 1, mid>>>>
    IN IF n >= 3 THEN Max2(0, Misplaced(state, edge_positions) \div 8) ELSE 0

_get_heuristic_value(self, state) ==
    IF state \in DOMAIN self.heuristic_db
    THEN [self |-> [self EXCEPT !.heuristic_hits = @ + 1], ret |-> self.heuristic_db[state]]
    ELSE [self |-> self,
          ret |-> Max2(Max2(_manhattan_distance_heuristic(state), _corner_heuristic(state)),
                       _edge_heuristic(state))]

(***************************************************************************)
(* Loops.  A loop of the code is a step operator (one pass of its body)    *)
(* over a loop-state record with the fields done and ret, and a driver     *)
(* that repeats the step until done.  A driver given fuel k runs up to     *)
(* 2^k passes; ForFuel serves the loops over a move list, LoopFuel the     *)
(* other loops, and a loop that needs more passes has no value.            *)
(***************************************************************************)
ForFuel == 5

LoopFuel == 14

Finished(st) == IF st.done THEN st ELSE CHOOSE unfinished \in {} : TRUE

(***************************************************************************)
(* Bounded BFS.  The loop state is [self, visited, queue, done, ret]; a    *)
(* queue entry is <<state, path>>.  The loop over the moves of one node    *)
(* has the state [self, visited, queue, state, path, moves, i, done].      *)
(***************************************************************************)
\* one pass of `for move in self._generate_all_moves(puzzle.size):`
BfsMoveStep(st) ==
    IF st.i > Len(st.moves) THEN [st EXCEPT !.done = TRUE]
    ELSE Bind(_get_next_state(st.self, st.state, st.moves[st.i]), LAMBDA nx :
             IF nx.ret \notin st.visited
             THEN [st EXCEPT !.self = nx.self,
                             !.visited = @ \cup {nx.ret},
                             !.queue = Append(@, <<nx.ret, Append(st.path, st.moves[st.i])>>),
                             !.i = @ + 1]
             ELSE [st EXCEPT !.self = nx.self, !.i = @ + 1])

RECURSIVE BfsMoves(_, _)
BfsMoves(st, fuel) ==
    IF st.done THEN st
    ELSE IF fuel = 0 THEN BfsMoveStep(st)
    ELSE BfsMoves(BfsMoves(st, fuel - 1), fuel - 1)

\* a slip: the comparison is >=
beyond_depth_inclusive(path, max_depth) == Len(path) >= max_depth

\* len(path) > max_depth
beyond_depth(path, max_depth) == Len(path) > max_depth

\* one pass of `while queue:` in _breadth_first_search
BfsStep(st, max_depth) ==
    IF st.queue = <<>> THEN [st EXCEPT !.done = TRUE, !.ret = ResultNone]
    ELSE LET state == Head(st.queue)[1]
             path == Head(st.queue)[2]
             popped == [st EXCEPT !.queue = Tail(@), !.self.nodes_expanded = @ + 1]
         IN IF beyond_depth(path, max_depth)
            THEN [popped EXCEPT !.done = TRUE, !.ret = ResultNone]
            ELSE IF is_completion_achieved(state)
            THEN [popped EXCEPT !.done = TRUE, !.ret = ResultPath(path)]
            ELSE Bind(Finished(BfsMoves(
                          [self |-> popped.self, visited |-> popped.visited,
                           queue |-> popped.queue, state |-> state, path |-> path,
                           moves |-> _generate_all_moves(PuzzleSize(state)),
                           i |-> 1, done |-> FALSE], ForFuel)), LAMBDA loop :
                     [popped EXCEPT !.self = loop.self, !.visited = loop.visited,
                                    !.queue = loop.queue])

RECURSIVE BfsWhile(_, _, _)
BfsWhile(st, max_depth, fuel) ==
    IF st.done THEN st
    ELSE IF fuel = 0 THEN BfsStep(st, max_depth)
    ELSE BfsWhile(BfsWhile(st, max_depth, fuel - 1), max_depth, fuel - 1)

_breadth_first_search(self, initial_state, max_depth) ==
    Bind(Finished(BfsWhile([self |-> self, visited |-> {initial_state},
                            queue |-> <<<<initial_state, <<>>>>>>,
                            done |-> FALSE, ret |-> ResultNone],
                           max_depth, LoopFuel)), LAMBDA st :
         [self |-> st.self, ret |-> st.ret])

(***************************************************************************)
(* Move ordering.  A missing prev_move or state (None) is <<>>.            *)
(***************************************************************************)
\* move_priority(move) of _generate_ordered_moves
move_priority(self, puzzle_size, state, move) ==
    (IF move[2] = 0 \/ move[2] = puzzle_size - 1 THEN -2 ELSE 0)
    + (IF move[1] = "horizontal" THEN -1 ELSE 0)
    + (IF state # <<>> /\ DOMAIN self.heuristic_db # {}
       THEN IF _get_heuristic_value(self, _apply_move(state, move)).ret
               < _get_heuristic_value(self, state).ret THEN -3 ELSE 0
       ELSE 0)

\* sorted(moves, key): the moves in ascending key order, equal keys in their given order
StableSort(moves, keys) ==
    LET indices == SubSeq([k \in 1..Len(moves) |-> k], 1, Len(moves))
        Pick(p) == LET at == SelectSeq(indices, LAMBDA k : keys[k] = p)
                   IN SubSeq([j \in 1..Len(at) |-> moves[at[j]]], 1, Len(at))
    IN Pick(-6) \o Pick(-5) \o Pick(-4) \o Pick(-3) \o Pick(-2) \o Pick(-1) \o Pick(0)

\* the lookups of move_priority that find their state in heuristic_db
PriorityHits(self, state, moves) ==
    IF state # <<>> /\ DOMAIN self.heuristic_db # {}
    THEN LET old == IF state \in DOMAIN self.heuristic_db THEN 1 ELSE 0
             H[k \in 0..Len(moves)] ==
                 IF k = 0 THEN 0
                 ELSE H[k - 1] + old
                      + (IF _apply_move(state, moves[k]) \in DOMAIN self.heuristic_db
                         THEN 1 ELSE 0)
         IN H[Len(moves)]
    ELSE 0

_generate_ordered_moves(self, puzzle_size, prev_move, state) ==
    LET all == _generate_all_moves(puzzle_size)
        moves == IF prev_move # <<>>
                 THEN SelectSeq(all, LAMBDA m : m # _get_inverse_move(prev_move))
                 ELSE all
        keys == SubSeq([k \in 1..Len(moves) |-> move_priority(self, puzzle_size, state, moves[k])],
                       1, Len(moves))
    IN [self |-> [self EXCEPT !.heuristic_hits = @ + PriorityHits(self, state, moves)],
        ret |-> StableSort(moves, keys)]

(***************************************************************************)
(* Clock.  A timeout argument is the number of reads of time.time() after  *)
(* start_time that still find the deadline not passed (Never: every read   *)
(* does); the searches count their reads.                                  *)
(***************************************************************************)
Never == -1

\* a slip: one more read finds the deadline not passed
TimedOut_late(reads, timeout) == timeout # Never /\ reads > timeout

TimedOut(reads, timeout) == timeout # Never /\ reads >= timeout

(***************************************************************************)
(* BFS with timeout.  Loop state [self, visited, queue, nodes_checked,     *)
(* reads, done, ret].                                                      *)
(***************************************************************************)
ClockPeriod == 1000

\* one pass of `while queue:` in _breadth_first_search_with_timeout
BfsTimeoutStep(st, max_depth, timeout) ==
    IF st.queue = <<>> THEN [st EXCEPT !.done = TRUE, !.ret = ResultNone]
    ELSE IF st.nodes_checked % ClockPeriod = 0 /\ TimedOut(st.reads, timeout)
    THEN [st EXCEPT !.done = TRUE, !.ret = ResultNone, !.reads = @ + 1]
    ELSE LET state == Head(st.queue)[1]
             path == Head(st.queue)[2]
             popped == [st EXCEPT !.queue = Tail(@),
                                  !.reads = IF st.nodes_checked % ClockPeriod = 0
                                            THEN @ + 1 ELSE @,
                                  !.nodes_checked = @ + 1,
                                  !.self.nodes_expanded = @ + 1]
         IN IF beyond_depth(path, max_depth) THEN popped
            ELSE IF is_completion_achieved(state)
            THEN [popped EXCEPT !.done = TRUE, !.ret = ResultPath(path)]
            ELSE Bind(_generate_ordered_moves(
                          popped.self, PuzzleSize(state),
                          IF path # <<>> THEN path[Len(path)] ELSE <<>>, <<>>), LAMBDA ordered :
                 Bind(Finished(BfsMoves(
                          [self |-> ordered.self, visited |-> popped.visited,
                           queue |-> popped.queue, state |-> state, path |-> path,
                           moves |-> ordered.ret, i |-> 1, done |-> FALSE], ForFuel)),
                      LAMBDA loop :
                     [popped EXCEPT !.self = loop.self, !.visited = loop.visited,
                                    !.queue = loop.queue]))

RECURSIVE BfsTimeoutWhile(_, _, _, _)
BfsTimeoutWhile(st, max_depth, timeout, fuel) ==
    IF st.done THEN st
    ELSE IF fuel = 0 THEN BfsTimeoutStep(st, max_depth, timeout)
    ELSE BfsTimeoutWhile(BfsTimeoutWhile(st, max_depth, timeout, fuel - 1),
                         max_depth, timeout, fuel - 1)

_breadth_first_search_with_timeout(self, initial_state, max_depth, timeout) ==
    Bind(Finished(BfsTimeoutWhile(
             [self |-> self, visited |-> {initial_state},
              queue |-> <<<<initial_state, <<>>>>>>, nodes_checked |-> 0, reads |-> 0,
              done |-> FALSE, ret |-> ResultNone],
             max_depth, timeout, LoopFuel)), LAMBDA st :
         [self |-> st.self, ret |-> st.ret, reads |-> st.reads])

(***************************************************************************)
(* Bidirectional search.  A frontier dict is the sequence of its           *)
(* <<state, path>> items in insertion order.  One record serves the three  *)
(* nested loops (layers, frontier items, moves):                           *)
(*   [self, forward_frontier, backward_frontier, forward_visited,          *)
(*    backward_visited, new_frontier, depth, k, i, reads, returned, ret,   *)
(*    meet, done]                                                          *)
(* k and i are the positions in the frontier and in the move list,         *)
(* returned tells that a return statement was reached, and meet records    *)
(* the meeting a path was built from.  with_timeout selects                *)
(* _bidirectional_search_with_timeout where the two functions differ.      *)
(***************************************************************************)
BidirectionalLayerCap == 8

TimeoutLayers == 6

NoMeet == [phase |-> "none", path |-> <<>>, move |-> <<>>, found |-> <<>>, keyed |-> FALSE]

FrontierKeys(frontier) == {frontier[j][1] : j \in DOMAIN frontier}

\* frontier.get(state, [])
_find_path_in_frontier(state, frontier) ==
    IF state \in FrontierKeys(frontier)
    THEN frontier[CHOOSE j \in DOMAIN frontier : frontier[j][1] = state][2]
    ELSE <<>>

\* a slip: the backward path is reversed without its connecting move in place
MeetingPath_misplaced(side, with_timeout, path, move, found) ==
    IF side = "forward" THEN Append(path, move) \o _reverse_path(found)
    ELSE found \o _reverse_path(<<move>> \o path)

\* the return statement of a meeting found while expanding `side`
MeetingPath(side, with_timeout, path, move, found) ==
    IF side = "forward" THEN Append(path, move) \o _reverse_path(found)
    ELSE IF with_timeout THEN found \o _reverse_path(<<move>> \o path)
    ELSE found \o _reverse_path(Append(path, move))

\* one pass of `for move in self._generate_all_moves(3):`
BidiMoveStep(st, side, with_timeout) ==
    LET moves == _generate_all_moves(BidirectionalSize)
        frontier == IF side = "forward" THEN st.forward_frontier ELSE st.backward_frontier
        other == IF side = "forward" THEN st.backward_frontier ELSE st.forward_frontier
        other_visited == IF side = "forward" THEN st.backward_visited ELSE st.forward_visited
        own_visited == IF side = "forward" THEN st.forward_visited ELSE st.backward_visited
        state == frontier[st.k][1]
        path == frontier[st.k][2]
    IN IF st.i > Len(moves) THEN [st EXCEPT !.done = TRUE]
       ELSE Bind(_get_next_state(st.self, state, moves[st.i]), LAMBDA nx :
            LET move == moves[st.i]
                found == _find_path_in_frontier(nx.ret, other)
            IN IF nx.ret \in other_visited
               THEN [st EXCEPT !.self = nx.self, !.returned = TRUE, !.done = TRUE,
                               !.ret = ResultPath(MeetingPath(side, with_timeout, path, move, found)),
                               !.meet = [phase |-> side, path |-> path, move |-> move,
                                         found |-> found,
                                         keyed |-> nx.ret \in FrontierKeys(other)]]
               ELSE IF nx.ret \notin own_visited
               THEN IF side = "forward"
                    THEN [st EXCEPT !.self = nx.self, !.i = @ + 1,
                                    !.forward_visited = @ \cup {nx.ret},
                                    !.new_frontier = Append(@, <<nx.ret, Append(path, move)>>)]
                    ELSE [st EXCEPT !.self = nx.self, !.i = @ + 1,
                                    !.backward_visited = @ \cup {nx.ret},
                                    !.new_frontier = Append(@, <<nx.ret, Append(path, move)>>)]
               ELSE [st EXCEPT !.self = nx.self, !.i = @ + 1])

RECURSIVE BidiMoves(_, _, _, _)
BidiMoves(st, side, with_timeout, fuel) ==
    IF st.done THEN st
    ELSE IF fuel = 0 THEN BidiMoveStep(st, side, with_timeout)
    ELSE BidiMoves(BidiMoves(st, side, with_timeout, fuel - 1), side, with_timeout, fuel - 1)

\* one pass of `for state, path in <side>_frontier.items():`
BidiItemStep(st, side, with_timeout) ==
    LET frontier == IF side = "forward" THEN st.forward_frontier ELSE st.backward_frontier
    IN IF st.k > Len(frontier) THEN [st EXCEPT !.done = TRUE]
       ELSE Bind(Finished(BidiMoves(
                     [st EXCEPT !.self.nodes_expanded = @ + 1, !.i = 1, !.done = FALSE],
                     side, with_timeout, ForFuel)), LAMBDA loop :
                IF loop.returned THEN loop
                ELSE [loop EXCEPT !.k = @ + 1, !.done = FALSE])

RECURSIVE BidiItems(_, _, _, _)
BidiItems(st, side, with_timeout, fuel) ==
    IF st.done THEN st
    ELSE IF fuel = 0 THEN BidiItemStep(st, side, with_timeout)
    ELSE BidiItems(BidiItems(st, side, with_timeout, fuel - 1), side, with_timeout, fuel - 1)

\* new_<side> = {}; for state, path in <side>_frontier.items(): ...
BidiExpand(st, side, with_timeout) ==
    Finished(BidiItems([st EXCEPT !.new_frontier = <<>>, !.k = 1, !.done = FALSE],
                       side, with_timeout, LoopFuel))

\* a slip: the backward phase is run against the forward frontier of the layer before
BidiLayerStep_stale(st, with_timeout, max_depth, timeout) ==
    IF st.depth >= max_depth THEN [st EXCEPT !.done = TRUE, !.ret = ResultNone]
    ELSE IF with_timeout /\ TimedOut(st.reads, timeout)
    THEN [st EXCEPT !.done = TRUE, !.ret = ResultNone, !.reads = @ + 1]
    ELSE Bind(BidiExpand([st EXCEPT !.reads = IF with_timeout THEN @ + 1 ELSE @],
                         "forward", with_timeout), LAMBDA fwd :
         IF fwd.returned THEN fwd
         ELSE IF ~with_timeout /\ fwd.new_frontier = <<>>
         THEN [fwd EXCEPT !.done = TRUE, !.ret = ResultNone]
         ELSE Bind(BidiExpand(fwd, "backward", with_timeout), LAMBDA bwd :
              IF bwd.returned THEN bwd
              ELSE IF ~with_timeout /\ bwd.new_frontier = <<>>
              THEN [bwd EXCEPT !.done = TRUE, !.ret = ResultNone]
              ELSE [bwd EXCEPT !.forward_frontier = fwd.new_frontier,
                               !.backward_frontier = bwd.new_frontier,
                               !.depth = @ + 1, !.done = FALSE]))

\* one pass of `for depth in range(max_depth):`
BidiLayerStep(st, with_timeout, max_depth, timeout) ==
    IF st.depth >= max_depth THEN [st EXCEPT !.done = TRUE, !.ret = ResultNone]
    ELSE IF with_timeout /\ TimedOut(st.reads, timeout)
    THEN [st EXCEPT !.done = TRUE, !.ret = ResultNone, !.reads = @ + 1]
    ELSE Bind(BidiExpand([st EXCEPT !.reads = IF with_timeout THEN @ + 1 ELSE @],
                         "forward", with_timeout), LAMBDA fwd :
         IF fwd.returned THEN fwd
         ELSE IF ~with_timeout /\ fwd.new_frontier = <<>>
         THEN [fwd EXCEPT !.done = TRUE, !.ret = ResultNone]
         ELSE Bind(BidiExpand([fwd EXCEPT !.forward_frontier = fwd.new_frontier],
                              "backward", with_timeout), LAMBDA bwd :
              IF bwd.returned THEN bwd
              ELSE IF ~with_timeout /\ bwd.new_frontier = <<>>
              THEN [bwd EXCEPT !.done = TRUE, !.ret = ResultNone]
              ELSE [bwd EXCEPT !.backward_frontier = bwd.new_frontier,
                               !.depth = @ + 1, !.done = FALSE]))

RECURSIVE BidiLayers(_, _, _, _, _)
BidiLayers(st, with_timeout, max_depth, timeout, fuel) ==
    IF st.done THEN st
    ELSE IF fuel = 0 THEN BidiLayerStep(st, with_timeout, max_depth, timeout)
    ELSE BidiLayers(BidiLayers(st, with_timeout, max_depth, timeout, fuel - 1),
                    with_timeout, max_depth, timeout, fuel - 1)

Bidirectional(self, initial_state, with_timeout, max_depth, timeout) ==
    LET solved_state == CubicPuzzle(BidirectionalSize)
    IN IF initial_state = solved_state
       THEN [self |-> self, ret |-> ResultPath(<<>>), meet |-> NoMeet, reads |-> 0]
       ELSE Bind(Finished(BidiLayers(
                     [self |-> self,
                      forward_frontier |-> <<<<initial_state, <<>>>>>>,
                      backward_frontier |-> <<<<solved_state, <<>>>>>>,
                      forward_visited |-> {initial_state},
                      backward_visited |-> {solved_state},
                      new_frontier |-> <<>>, depth |-> 0, k |-> 1, i |-> 1, reads |-> 0,
                      returned |-> FALSE, ret |-> ResultNone, meet |-> NoMeet,
                      done |-> FALSE],
                     with_timeout, max_depth, timeout, ForFuel)), LAMBDA st :
                [self |-> st.self, ret |-> st.ret, meet |-> st.meet, reads |-> st.reads])

\* a slip: the depth ceiling is not halved
_bidirectional_search_unhalved(self, initial_state) ==
    Bidirectional(self, initial_state, FALSE,
                  Min2(self.depth_ceiling, BidirectionalLayerCap), Never)

_bidirectional_search(self, initial_state) ==
    Bidirectional(self, initial_state, FALSE,
                  Min2(self.depth_ceiling \div 2, BidirectionalLayerCap), Never)

_bidirectional_search_with_timeout(self, initial_state, timeout) ==
    Bidirectional(self, initial_state, TRUE, TimeoutLayers, timeout)

(***************************************************************************)
(* IDA*.                                                                   *)
(***************************************************************************)
\* a slip: the f of the node pruned last is kept
BelowThreshold_latest(f, threshold) == TRUE

\* f < self.next_threshold, for next_threshold inf or a number
BelowThreshold(f, threshold) ==
    threshold.kind = "inf" \/ (threshold.kind = "int" /\ f < threshold.val)

\* a slip: the move of an abandoned branch stays on the path
pop_missing(path) == path

\* self.solution_path.pop()
pop(path) == SubSeq(path, 1, Len(path) - 1)

\* _depth_limited_search_optimized up to its `for move in moves:` loop: the
\* call returns False or True at once, or goes on to expand the node
DlsEnter(self, state, g, prev_move) ==
    Bind(_get_heuristic_value([self EXCEPT !.nodes_expanded = @ + 1], state), LAMBDA hv :
    LET f == g + hv.ret
        state_depth_key == <<state, g % 4>>
    IN IF f > hv.self.current_threshold
       THEN [self |-> IF BelowThreshold(f, hv.self.next_threshold)
                      THEN [hv.self EXCEPT !.next_threshold = Finite(f)]
                      ELSE hv.self,
             outcome |-> "false", frame |-> <<>>]
       ELSE IF is_completion_achieved(state)
       THEN [self |-> hv.self, outcome |-> "true", frame |-> <<>>]
       ELSE IF state_depth_key \in hv.self.visited_states
       THEN [self |-> hv.self, outcome |-> "false", frame |-> <<>>]
       ELSE Bind(_generate_ordered_moves(
                     [hv.self EXCEPT !.visited_states = @ \cup {state_depth_key}],
                     PuzzleSize(state), prev_move, state), LAMBDA ordered :
                [self |-> ordered.self, outcome |-> "expand",
                 frame |-> [state |-> state, g |-> g, moves |-> ordered.ret, i |-> 1,
                            key |-> state_depth_key]]))

\* The recursion of _depth_limited_search_optimized with its call stack made
\* explicit: `stack` holds one frame per call that is inside its moves loop.
\* One step is one pass of the innermost call's loop: either the loop is
\* exhausted (visited_states.remove, return False to the caller, which pops
\* solution_path and goes on), or the next move is applied and the recursive
\* call made (True propagates through every caller).
DlsStep(st) ==
    LET depth == Len(st.stack)
        top == st.stack[depth]
    IN IF top.i > Len(top.moves)
       THEN LET self1 == [st.self EXCEPT !.visited_states = @ \ {top.key}]
            IN IF depth = 1
               THEN [st EXCEPT !.self = self1, !.stack = <<>>, !.done = TRUE, !.ret = FALSE]
               ELSE [st EXCEPT !.self = [self1 EXCEPT !.solution_path = pop(@)],
                               !.stack = [SubSeq(@, 1, depth - 1) EXCEPT ![depth - 1].i = @ + 1]]
       ELSE Bind(_get_next_state(st.self, top.state, top.moves[top.i]), LAMBDA nx :
            Bind(DlsEnter([nx.self EXCEPT !.solution_path = Append(@, top.moves[top.i])],
                          nx.ret, top.g + 1, top.moves[top.i]), LAMBDA child :
               IF child.outcome = "true"
               THEN [st EXCEPT !.self = child.self, !.done = TRUE, !.ret = TRUE]
               ELSE IF child.outcome = "false"
               THEN [st EXCEPT !.self = [child.self EXCEPT !.solution_path = pop(@)],
                               !.stack[depth].i = @ + 1]
               ELSE [st EXCEPT !.self = child.self, !.stack = Append(@, child.frame)]))

RECURSIVE DlsRun(_, _)
DlsRun(st, fuel) ==
    IF st.done THEN st
    ELSE IF fuel = 0 THEN DlsStep(st)
    ELSE DlsRun(DlsRun(st, fuel - 1), fuel - 1)

_depth_limited_search_optimized(self, state, g, prev_move) ==
    Bind(DlsEnter(self, state, g, prev_move), LAMBDA root :
         IF root.outcome = "expand"
         THEN Bind(Finished(DlsRun([self |-> root.self, stack |-> <<root.frame>>,
                                    done |-> FALSE, ret |-> FALSE], LoopFuel)), LAMBDA st :
                   [self |-> st.self, ret |-> st.ret])
         ELSE [self |-> root.self, ret |-> root.outcome = "true"])

\* one pass of `while self.current_threshold <= self.depth_ceiling:`;
\* loop state [self, initial_state, done, ret]
IdaStep(st) ==
    IF st.self.current_threshold > st.self.depth_ceiling
    THEN [st EXCEPT !.done = TRUE, !.ret = ResultPath(<<>>)]
    ELSE Bind(_depth_limited_search_optimized(st.self, st.initial_state, 0, <<>>),
              LAMBDA search :
            IF search.ret
            THEN [st EXCEPT !.self = search.self, !.done = TRUE,
                            !.ret = ResultPath(search.self.solution_path)]
            ELSE IF search.self.next_threshold = Infinity
            THEN [st EXCEPT !.self = search.self, !.done = TRUE, !.ret = ResultPath(<<>>)]
            ELSE [st EXCEPT !.self = [search.self EXCEPT
                                         !.solution_path = <<>>,
                                         !.visited_states = {},
                                         !.current_threshold = search.self.next_threshold.val,
                                         !.next_threshold = Infinity]])

RECURSIVE IdaWhile(_, _)
IdaWhile(st, fuel) ==
    IF st.done THEN st
    ELSE IF fuel = 0 THEN IdaStep(st)
    ELSE IdaWhile(IdaWhile(st, fuel - 1), fuel - 1)

_ida_star_search(self, initial_state) ==
    Bind(_get_heuristic_value(
             [self EXCEPT !.visited_states = {}, !.solution_path = <<>>],
             initial_state), LAMBDA initial_h :
    Bind(Finished(IdaWhile(
             [self |-> [initial_h.self EXCEPT
                           !.current_threshold = Max2(initial_h.ret, 1),
                           !.next_threshold = Infinity],
              initial_state |-> initial_state, done |-> FALSE, ret |-> ResultNone],
             ForFuel)), LAMBDA st :
         [self |-> st.self, ret |-> st.ret]))

(***************************************************************************)
(* The simple fallback.  _depth_limited_simple_search with its call stack  *)
(* made explicit: a frame [state, max_depth, moves, i] is a call inside    *)
(* its moves loop, and `returning` says that the value in ret is being     *)
(* returned to the innermost frame.  reads counts the clock reads.         *)
(***************************************************************************)
SimpleSearchDepth == 4

SimpleFirstBound == 5

\* a slip: result + [move]
prepend_behind(move, result) == result \o <<move>>

\* [move] + result
prepend(move, result) == <<move>> \o result

\* _depth_limited_simple_search up to its moves loop
SimpleEnter(st, state, max_depth, timeout) ==
    LET read == [st EXCEPT !.reads = @ + 1]
    IN IF TimedOut(st.reads, timeout)
       THEN [read EXCEPT !.returning = TRUE, !.ret = ResultNone]
       ELSE IF is_completion_achieved(state)
       THEN [read EXCEPT !.returning = TRUE, !.ret = ResultPath(<<>>)]
       ELSE IF max_depth <= 0
       THEN [read EXCEPT !.returning = TRUE, !.ret = ResultNone]
       ELSE [read EXCEPT !.returning = FALSE,
                         !.stack = Append(@, [state |-> state, max_depth |-> max_depth,
                                              moves |-> _generate_all_moves(PuzzleSize(state)),
                                              i |-> 1])]

SimpleStep(st, timeout) ==
    LET depth == Len(st.stack)
        top == st.stack[depth]
    IN IF depth = 0 THEN [st EXCEPT !.done = TRUE]
       ELSE IF st.returning
       THEN IF st.ret # ResultNone
            THEN [st EXCEPT !.ret = ResultPath(prepend(top.moves[top.i], st.ret.path)),
                            !.stack = SubSeq(@, 1, depth - 1)]
            ELSE [st EXCEPT !.returning = FALSE, !.stack[depth].i = @ + 1]
       ELSE IF top.i > Len(top.moves)
       THEN [st EXCEPT !.returning = TRUE, !.ret = ResultNone,
                       !.stack = SubSeq(@, 1, depth - 1)]
       ELSE Bind(_get_next_state(st.self, top.state, top.moves[top.i]), LAMBDA nx :
                SimpleEnter([st EXCEPT !.self = nx.self], nx.ret, top.max_depth - 1, timeout))

RECURSIVE SimpleRun(_, _, _)
SimpleRun(st, timeout, fuel) ==
    IF st.done THEN st
    ELSE IF fuel = 0 THEN SimpleStep(st, timeout)
    ELSE SimpleRun(SimpleRun(st, timeout, fuel - 1), timeout, fuel - 1)

_depth_limited_simple_search(self, state, max_depth, reads, timeout) ==
    Bind(Finished(SimpleRun(
             SimpleEnter([self |-> self, reads |-> reads, stack |-> <<>>,
                          returning |-> FALSE, ret |-> ResultNone, done |-> FALSE],
                         state, max_depth, timeout),
             timeout, LoopFuel)), LAMBDA st :
         [self |-> st.self, ret |-> st.ret, reads |-> st.reads])

\* a slip: the clock is not read before a depth bound is tried
SimpleDepthStep_unchecked(st, initial_state, max_moves, timeout) ==
    IF st.depth > max_moves THEN [st EXCEPT !.done = TRUE, !.ret = ResultNone]
    ELSE Bind(_depth_limited_simple_search(st.self, initial_state, st.depth,
                                           st.reads, timeout), LAMBDA solution :
            IF Truthy(solution.ret)
            THEN [st EXCEPT !.self = solution.self, !.reads = solution.reads,
                            !.done = TRUE, !.ret = solution.ret]
            ELSE [st EXCEPT !.self = solution.self, !.reads = solution.reads,
                            !.depth = @ + 1])

\* one pass of `for depth in range(5, max_moves + 1):`;
\* loop state [self, reads, depth, done, ret]
SimpleDepthStep(st, initial_state, max_moves, timeout) ==
    IF st.depth > max_moves THEN [st EXCEPT !.done = TRUE, !.ret = ResultNone]
    ELSE IF TimedOut(st.reads, timeout)
    THEN [st EXCEPT !.done = TRUE, !.ret = ResultNone, !.reads = @ + 1]
    ELSE Bind(_depth_limited_simple_search(st.self, initial_state, st.depth,
                                           st.reads + 1, timeout), LAMBDA solution :
            IF Truthy(solution.ret)
            THEN [st EXCEPT !.self = solution.self, !.reads = solution.reads,
                            !.done = TRUE, !.ret = solution.ret]
            ELSE [st EXCEPT !.self = solution.self, !.reads = solution.reads,
                            !.depth = @ + 1])

RECURSIVE SimpleDepths(_, _, _, _, _)
SimpleDepths(st, initial_state, max_moves, timeout, fuel) ==
    IF st.done THEN st
    ELSE IF fuel = 0 THEN SimpleDepthStep(st, initial_state, max_moves, timeout)
    ELSE SimpleDepths(SimpleDepths(st, initial_state, max_moves, timeout, fuel - 1),
                      initial_state, max_moves, timeout, fuel - 1)

solve_puzzle_simple(self, initial_state, max_moves, timeout) ==
    Bind(_breadth_first_search(self, initial_state, SimpleSearchDepth), LAMBDA quick_bfs :
         IF Truthy(quick_bfs.ret)
         THEN [self |-> quick_bfs.self, ret |-> quick_bfs.ret, reads |-> 0]
         ELSE Bind(Finished(SimpleDepths(
                       [self |-> quick_bfs.self, reads |-> 0, depth |-> SimpleFirstBound,
                        done |-> FALSE, ret |-> ResultNone],
                       initial_state, max_moves, timeout, ForFuel)), LAMBDA st :
                   [self |-> st.self, ret |-> st.ret, reads |-> st.reads]))

(***************************************************************************)
(* solve_puzzle: BFS to depth 6, then bidirectional, then IDA*.  stage     *)
(* names the strategy whose result is returned.                            *)
(***************************************************************************)
SolveSearchDepth == 6

\* a slip: IDA* is tried first, the BFS and the bidirectional search after it
solve_puzzle_ida_first(self, initial_state) ==
    Bind(_ida_star_search(_reset_performance_counters(self), initial_state),
         LAMBDA ida_solution :
    IF Truthy(ida_solution.ret)
    THEN [self |-> ida_solution.self, ret |-> ida_solution.ret, stage |-> "ida"]
    ELSE Bind(_breadth_first_search(_reset_performance_counters(ida_solution.self),
                                    initial_state, SolveSearchDepth), LAMBDA bfs_solution :
         IF Truthy(bfs_solution.ret)
         THEN [self |-> bfs_solution.self, ret |-> bfs_solution.ret, stage |-> "bfs"]
         ELSE Bind(_bidirectional_search(_reset_performance_counters(bfs_solution.self),
                                         initial_state), LAMBDA bidirectional_solution :
                   [self |-> bidirectional_solution.self,
                    ret |-> bidirectional_solution.ret, stage |-> "bidirectional"])))

solve_puzzle(self, initial_state) ==
    Bind(_breadth_first_search(_reset_performance_counters(self),
                               initial_state, SolveSearchDepth), LAMBDA bfs_solution :
    IF Truthy(bfs_solution.ret)
    THEN [self |-> bfs_solution.self, ret |-> bfs_solution.ret, stage |-> "bfs"]
    ELSE Bind(_bidirectional_search(_reset_performance_counters(bfs_solution.self),
                                    initial_state), LAMBDA bidirectional_solution :
         IF Truthy(bidirectional_solution.ret)
         THEN [self |-> bidirectional_solution.self,
               ret |-> bidirectional_solution.ret, stage |-> "bidirectional"]
         ELSE Bind(_ida_star_search(
                       _reset_performance_counters(bidirectional_solution.self),
                       initial_state), LAMBDA ida_solution :
                   [self |-> ida_solution.self, ret |-> ida_solution.ret,
                    stage |-> "ida"])))

(***************************************************************************)
(* KnowledgeBaseBuilder.construct_heuristic_database.  A knowledge base is *)
(* a function from states to distances; existing_knowledge is              *)
(* [given |-> FALSE] for None and [given |-> TRUE, db |-> mapping]         *)
(* otherwise.  Loop state [knowledge_db, exploration_queue,                *)
(* states_processed, done]; a queue entry is <<state, depth>>.  The loop   *)
(* over move_set has the state [knowledge_db, exploration_queue,           *)
(* current_state, current_depth, i, done].                                 *)
(***************************************************************************)
NodeBudget == 1000000

QueueLimit == 100000

QueueKeep == 50000

NoKnowledge == [given |-> FALSE, db |-> <<>>]

RECURSIVE Power(_, _)
Power(base, exponent) == IF exponent = 0 THEN 1 ELSE base * Power(base, exponent - 1)

\* sorted(exploration_queue, key=lambda x: x[1]): stable, by depth
RECURSIVE SortedByDepth(_, _, _)
SortedByDepth(queue, depth, last) ==
    LET AtDepth(entry) == entry[2] = depth
    IN IF depth > last THEN <<>>
       ELSE SelectSeq(queue, AtDepth) \o SortedByDepth(queue, depth + 1, last)

\* deque(sorted(exploration_queue, key=lambda x: x[1])[:50000])
PruneQueue(queue, exploration_depth) ==
    LET sorted == SortedByDepth(queue, 0, exploration_depth)
    IN SubSeq(sorted, 1, Min2(Len(sorted), QueueKeep))

\* one pass of `for move in move_set:`
BuildMoveStep(st, move_set, exploration_depth) ==
    IF st.i > Len(move_set) THEN [st EXCEPT !.done = TRUE]
    ELSE Bind(LET move == move_set[st.i]
              IN IF move[1] = "horizontal"
                 THEN Rotate(st.current_state, "horizontal", move[2], move[3])
                 ELSE IF move[1] = "vertical"
                 THEN Rotate(st.current_state, "vertical", move[2], move[3])
                 ELSE IF move[1] = "sideways"
                 THEN Rotate(st.current_state, "sideways", move[2], move[3])
                 ELSE st.current_state, LAMBDA new_state :
         LET new_distance == st.current_depth + 1
             improves == \/ new_state \notin DOMAIN st.knowledge_db
                         \/ st.knowledge_db[new_state] > new_distance
             queue == IF improves /\ new_distance < exploration_depth
                      THEN Append(st.exploration_queue, <<new_state, new_distance>>)
                      ELSE st.exploration_queue
         IN [st EXCEPT !.knowledge_db = IF improves
                                        THEN (new_state :> new_distance) @@ @
                                        ELSE @,
                       !.exploration_queue = IF Len(queue) > QueueLimit
                                             THEN PruneQueue(queue, exploration_depth)
                                             ELSE queue,
                       !.i = @ + 1])

RECURSIVE BuildMoves(_, _, _, _)
BuildMoves(st, move_set, exploration_depth, fuel) ==
    IF st.done THEN st
    ELSE IF fuel = 0 THEN BuildMoveStep(st, move_set, exploration_depth)
    ELSE BuildMoves(BuildMoves(st, move_set, exploration_depth, fuel - 1),
                    move_set, exploration_depth, fuel - 1)

\* a slip: a state at the exploration depth is still expanded
depth_reached_late(current_depth, exploration_depth) == current_depth > exploration_depth

\* if current_depth >= exploration_depth: continue
depth_reached(current_depth, exploration_depth) == current_depth >= exploration_depth

\* one pass of `while exploration_queue and states_processed < estimated_nodes:`
BuildStep(st, move_set, exploration_depth) ==
    LET estimated_nodes == Min2(Power(Len(move_set), exploration_depth), NodeBudget)
    IN IF st.exploration_queue = <<>> \/ st.states_processed >= estimated_nodes
       THEN [st EXCEPT !.done = TRUE]
       ELSE LET current_state == Head(st.exploration_queue)[1]
                current_depth == Head(st.exploration_queue)[2]
                popped == [st EXCEPT !.exploration_queue = Tail(@),
                                     !.states_processed = @ + 1]
            IN IF depth_reached(current_depth, exploration_depth) THEN popped
               ELSE Bind(Finished(BuildMoves(
                             [knowledge_db |-> popped.knowledge_db,
                              exploration_queue |-> popped.exploration_queue,
                              current_state |-> current_state,
                              current_depth |-> current_depth,
                              i |-> 1, done |-> FALSE],
                             move_set, exploration_depth, ForFuel)), LAMBDA loop :
                        [popped EXCEPT !.knowledge_db = loop.knowledge_db,
                                       !.exploration_queue = loop.exploration_queue])

RECURSIVE BuildWhile(_, _, _, _)
BuildWhile(st, move_set, exploration_depth, fuel) ==
    IF st.done THEN st
    ELSE IF fuel = 0 THEN BuildStep(st, move_set, exploration_depth)
    ELSE BuildWhile(BuildWhile(st, move_set, exploration_depth, fuel - 1),
                    move_set, exploration_depth, fuel - 1)

\* a slip: the caller's dictionary itself is worked on
copy_aliased(mapping) == [items |-> mapping, shared |-> TRUE]

\* existing_knowledge.copy(): a new dictionary with the same items
copy(mapping) == [items |-> mapping, shared |-> FALSE]

\* The call with the dictionaries it leaves behind: ret is the returned
\* knowledge_db, existing_knowledge the caller's argument after the call.
ConstructRun(target_state, move_set, exploration_depth, existing_knowledge) ==
    Bind(IF existing_knowledge.given
         THEN copy(existing_knowledge.db)
         ELSE [items |-> (target_state :> 0), shared |-> FALSE], LAMBDA knowledge_db :
        Bind(Finished(BuildWhile(
                 [knowledge_db |-> knowledge_db.items,
                  exploration_queue |-> <<<<target_state, 0>>>>,
                  states_processed |-> 0, done |-> FALSE],
                 move_set, exploration_depth, LoopFuel)), LAMBDA st :
            [ret |-> st.knowledge_db,
             existing_knowledge |-> IF knowledge_db.shared
                                    THEN [existing_knowledge EXCEPT !.db = st.knowledge_db]
                                    ELSE existing_knowledge]))

construct_heuristic_database(target_state, move_set, exploration_depth, existing_knowledge) ==
    ConstructRun(target_state, move_set, exploration_depth, existing_knowledge).ret

(***************************************************************************)
(* Inputs.  A puzzle handed to the engine is the goal state of its size    *)
(* after a scramble: a prefix of LongScramble, the half turn, or a single  *)
(* move.  The searches that start with a BFS are given the scrambles of at *)
(* most MaxShallow moves, and every scramble of the size-1 puzzle.         *)
(***************************************************************************)
MaxScramble == 4

MaxShallow == 2

MaxBfsDepth == 2

MaxTimeout == 1

MaxMoves == 6

KbDepth == 2

ScrambleMove(n, k) ==
    LET far == ((k - 1) \div 3) % 2 = 1
    IN <<MoveTypes[((k - 1) % 3) + 1], IF far THEN n - 1 ELSE 0, IF far THEN 0 ELSE 1>>

LongScramble(n) == SubSeq([k \in 1..MaxScramble |-> ScrambleMove(n, k)], 1, MaxScramble)

HalfTurn == <<<<"horizontal", 0, 1>>, <<"horizontal", 0, 1>>>>

Scrambles(n) == {SubSeq(LongScramble(n), 1, k) : k \in 0..MaxScramble} \cup {HalfTurn}

Shallow(n) == {scramble \in Scrambles(n) : Len(scramble) <= MaxShallow \/ n = 1}

Singles(n) == {<<move>> : move \in Range(_generate_all_moves(n))}

Scrambled(n, scramble) == ApplyPath(CubicPuzzle(n), scramble)

DepthLimits == (MaxDepthLimit - 1)..MaxDepthLimit

Timeouts == {Never} \cup (0..MaxTimeout)

\* KnowledgeBaseOf[n][d + 1]: the knowledge base built from the goal of size n to depth d
KnowledgeBaseOf ==
    SubSeq([n \in Sizes |->
               SubSeq([e \in 1..(KbDepth + 1) |->
                          construct_heuristic_database(CubicPuzzle(n), _generate_all_moves(n),
                                                       e - 1, NoKnowledge)],
                      1, KbDepth + 1)],
           1, Cardinality(Sizes))

KnowledgeBases == {KnowledgeBaseOf[n][e] : n \in Sizes, e \in 1..(KbDepth + 1)}

(***************************************************************************)
(* The engine as a state machine: an engine is constructed and one of its  *)
(* entry points is called on a puzzle.                                     *)
(***************************************************************************)
Self ==
    [heuristic_db |-> heuristic_db, depth_ceiling |-> depth_ceiling,
     current_threshold |-> current_threshold, next_threshold |-> next_threshold,
     solution_path |-> solution_path, visited_states |-> visited_states,
     move_cache |-> move_cache, nodes_expanded |-> nodes_expanded,
     cache_hits |-> cache_hits, heuristic_hits |-> heuristic_hits]

\* the engine fields after a call
Becomes(self) ==
    /\ heuristic_db' = self.heuristic_db
    /\ depth_ceiling' = self.depth_ceiling
    /\ current_threshold' = self.current_threshold
    /\ next_threshold' = self.next_threshold
    /\ solution_path' = self.solution_path
    /\ visited_states' = self.visited_states
    /\ move_cache' = self.move_cache
    /\ nodes_expanded' = self.nodes_expanded
    /\ cache_hits' = self.cache_hits
    /\ heuristic_hits' = self.heuristic_hits

Constructed(self) ==
    /\ heuristic_db = self.heuristic_db
    /\ depth_ceiling = self.depth_ceiling
    /\ current_threshold = self.current_threshold
    /\ next_threshold = self.next_threshold
    /\ solution_path = self.solution_path
    /\ visited_states = self.visited_states
    /\ move_cache = self.move_cache
    /\ nodes_expanded = self.nodes_expanded
    /\ cache_hits = self.cache_hits
    /\ heuristic_hits = self.heuristic_hits

\* the record of a call: its name, its arguments, and what came back
Call(name, initial_state) ==
    [name |-> name, initial_state |-> initial_state, max_depth |-> 0, max_moves |-> 0,
     timeout |-> Never, ret |-> ResultNone, value |-> 0, reads |-> 0, meet |-> NoMeet,
     stage |-> ""]

NoCall == Call("__init__", <<>>)

\* the call comes back with the result r: the engine fields and the returned value
Returns(call, r) ==
    /\ Becomes(r.self)
    /\ last_call' = [call EXCEPT !.ret = r.ret]

\* ... of a search that reads the clock
ReturnsTimed(call, r) ==
    /\ Becomes(r.self)
    /\ last_call' = [call EXCEPT !.ret = r.ret, !.reads = r.reads]

\* ... of a bidirectional search
ReturnsMeeting(call, r) ==
    /\ Becomes(r.self)
    /\ last_call' = [call EXCEPT !.ret = r.ret, !.meet = r.meet, !.reads = r.reads]

\* ... of solve_puzzle
ReturnsStaged(call, r) ==
    /\ Becomes(r.self)
    /\ last_call' = [call EXCEPT !.ret = r.ret, !.stage = r.stage]

\* ... of _get_heuristic_value
ReturnsValue(call, r) ==
    /\ Becomes(r.self)
    /\ last_call' = [call EXCEPT !.value = r.ret]

\* AdaptiveSearchEngine({}, depth_limit)
Init ==
    /\ \E depth_limit \in DepthLimits : Constructed(__init__(<<>>, depth_limit))
    /\ last_call = NoCall

\* AdaptiveSearchEngine(knowledge_db, depth_limit), knowledge_db from the builder
InitKb ==
    /\ \E knowledge_db \in KnowledgeBases, depth_limit \in DepthLimits :
           Constructed(__init__(knowledge_db, depth_limit))
    /\ last_call = NoCall

\* The goal state goes on to the bidirectional search, which is given the
\* puzzles of its own size only.
SolvePuzzle ==
    /\ last_call = NoCall
    /\ \E n \in Sizes : \E scramble \in Shallow(n) :
           LET initial_state == Scrambled(n, scramble)
           IN /\ is_completion_achieved(initial_state) => n = BidirectionalSize
              /\ ReturnsStaged(Call("solve_puzzle", initial_state),
                               solve_puzzle(Self, initial_state))

BreadthFirstSearch ==
    /\ last_call = NoCall
    /\ \E n \in Sizes : \E scramble \in Shallow(n) \cup Singles(n), max_depth \in 0..MaxBfsDepth :
           LET initial_state == Scrambled(n, scramble)
           IN Returns([Call("_breadth_first_search", initial_state) EXCEPT
                          !.max_depth = max_depth],
                      _breadth_first_search(Self, initial_state, max_depth))

BreadthFirstSearchWithTimeout ==
    /\ last_call = NoCall
    /\ \E n \in Sizes : \E scramble \in Shallow(n), max_depth \in 0..MaxBfsDepth,
                           timeout \in Timeouts :
           LET initial_state == Scrambled(n, scramble)
           IN ReturnsTimed([Call("_breadth_first_search_with_timeout", initial_state) EXCEPT
                               !.max_depth = max_depth, !.timeout = timeout],
                           _breadth_first_search_with_timeout(Self, initial_state,
                                                              max_depth, timeout))

\* The bidirectional searches apply the moves of a puzzle of size
\* BidirectionalSize and search from its goal: they are given puzzles of that size.
BidirectionalSearch ==
    /\ last_call = NoCall
    /\ \E scramble \in Scrambles(BidirectionalSize) \cup Singles(BidirectionalSize) :
           LET initial_state == Scrambled(BidirectionalSize, scramble)
           IN ReturnsMeeting(Call("_bidirectional_search", initial_state),
                             _bidirectional_search(Self, initial_state))

BidirectionalSearchWithTimeout ==
    /\ last_call = NoCall
    /\ \E scramble \in Scrambles(BidirectionalSize) \cup Singles(BidirectionalSize),
          timeout \in Timeouts :
           LET initial_state == Scrambled(BidirectionalSize, scramble)
           IN ReturnsMeeting([Call("_bidirectional_search_with_timeout", initial_state)
                                 EXCEPT !.timeout = timeout],
                             _bidirectional_search_with_timeout(Self, initial_state, timeout))

IdaStarSearch ==
    /\ last_call = NoCall
    /\ \E n \in Sizes : \E scramble \in Scrambles(n) :
           LET initial_state == Scrambled(n, scramble)
           IN Returns(Call("_ida_star_search", initial_state),
                      _ida_star_search(Self, initial_state))

SolvePuzzleSimple ==
    /\ last_call = NoCall
    /\ \E n \in Sizes : \E scramble \in Shallow(n), max_moves \in (MaxMoves - 1)..MaxMoves,
                           timeout \in Timeouts :
           LET initial_state == Scrambled(n, scramble)
           IN ReturnsTimed([Call("solve_puzzle_simple", initial_state) EXCEPT
                               !.max_moves = max_moves, !.timeout = timeout],
                           solve_puzzle_simple(Self, initial_state, max_moves, timeout))

\* called with start_time = the time of the call
DepthLimitedSimpleSearch ==
    /\ last_call = NoCall
    /\ \E n \in Sizes : \E scramble \in Shallow(n), max_depth \in 0..MaxBfsDepth,
                           timeout \in Timeouts :
           LET initial_state == Scrambled(n, scramble)
           IN ReturnsTimed([Call("_depth_limited_simple_search", initial_state) EXCEPT
                               !.max_depth = max_depth, !.timeout = timeout],
                           _depth_limited_simple_search(Self, initial_state, max_depth,
                                                        0, timeout))

GetHeuristicValue ==
    /\ last_call = NoCall
    /\ \E n \in Sizes : \E scramble \in Scrambles(n) \cup Singles(n) :
           LET state == Scrambled(n, scramble)
           IN ReturnsValue(Call("_get_heuristic_value", state),
                           _get_heuristic_value(Self, state))

Next ==
    \/ SolvePuzzle
    \/ BreadthFirstSearch
    \/ BreadthFirstSearchWithTimeout
    \/ BidirectionalSearch
    \/ BidirectionalSearchWithTimeout
    \/ IdaStarSearch
    \/ SolvePuzzleSimple
    \/ DepthLimitedSimpleSearch
    \/ GetHeuristicValue

Spec == Init /\ [][Next]_vars

\* the engine built on a knowledge base: heuristic look-ups and IDA*
NextKb ==
    \/ IdaStarSearch
    \/ GetHeuristicValue

SpecKb == InitKb /\ [][NextKb]_vars

(***************************************************************************)
(* Reference notions for the properties: the puzzle's own moves, the       *)
(* states within BallDepth moves of the goal, and the outcome of a call.   *)
(***************************************************************************)
BallDepth == 2

PuzzleMoves(n) ==
    {<<move_type, layer, direction>> :
        move_type \in {"horizontal", "vertical", "sideways"},
        layer \in 0..(n - 1), direction \in {0, 1}}

\* the states one puzzle move away from a state of `states`
Neighbours(states, n) ==
    {Rotate(state, move[1], move[2], move[3]) : state \in states, move \in PuzzleMoves(n)}

RECURSIVE Within(_, _)
Within(n, d) ==
    IF d = 0 THEN {CubicPuzzle(n)}
    ELSE Bind(Within(n, d - 1), LAMBDA inner : inner \cup Neighbours(inner, n))

\* Balls[n][d + 1]: the states of size n at most d moves from the goal
Balls ==
    SubSeq([n \in Sizes |-> SubSeq([e \in 1..(BallDepth + 1) |-> Within(n, e - 1)],
                                  1, BallDepth + 1)],
           1, Cardinality(Sizes))

\* the least number of moves from state to the goal when that is at most
\* BallDepth, and BallDepth + 1 when it is more
Distance(state) ==
    LET n == PuzzleSize(state)
        near == {d \in 0..BallDepth : state \in Balls[n][d + 1]}
    IN IF near = {} THEN BallDepth + 1
       ELSE CHOOSE d \in near : \A other \in near : d <= other

\* the moves of path, applied in order to initial_state, leave the goal state
Solves(initial_state, path) == is_completion_achieved(ApplyPath(initial_state, path))

Goal(state) == state = CubicPuzzle(PuzzleSize(state))

\* no clock read of the call found the deadline passed
NotExpired == last_call.timeout = Never \/ last_call.reads <= last_call.timeout

TimeoutBidirectionalReachesGoal ==
    (last_call.name = "_bidirectional_search_with_timeout" /\ last_call.ret.tag = "path")
        => Solves(last_call.initial_state, last_call.ret.path)

\* C3: whenever _bidirectional_search returns a path, the path is the forward
\* path, the connecting move and the inverted, reversed backward path, and
\* applying it in order to the initial state reaches the goal state, for
\* meetings found in the forward phase and in the backward phase alike.
BidirectionalPathJoinsFrontiers ==
    (last_call.name = "_bidirectional_search" /\ last_call.ret.tag = "path")
        => /\ Solves(last_call.initial_state, last_call.ret.path)
           /\ last_call.meet.phase = "forward"
                 => last_call.ret.path
                      = last_call.meet.path \o <<last_call.meet.move>>
                        \o _reverse_path(last_call.meet.found)
           /\ last_call.meet.phase = "backward"
                 => last_call.ret.path
                      = last_call.meet.found \o <<_get_inverse_move(last_call.meet.move)>>
                        \o _reverse_path(last_call.meet.path)

\* _bidirectional_search has met in the backward phase, the backward path not empty
BidirectionalPathJoinsFrontiersWitness ==
    /\ last_call.name = "_bidirectional_search"
    /\ last_call.ret.tag = "path"
    /\ last_call.meet.phase = "backward"
    /\ last_call.meet.path # <<>>
    /\ last_call.meet.found # <<>>

\* C4: whenever solve_puzzle_simple returns a non-empty path, applying its
\* moves in order to the initial state yields a completed puzzle; the same
\* holds of the depth-limited search it falls back on.
SimpleSolutionReachesGoal ==
    (/\ last_call.name \in {"solve_puzzle_simple", "_depth_limited_simple_search"}
     /\ Truthy(last_call.ret))
        => Solves(last_call.initial_state, last_call.ret.path)

\* the depth-limited simple search has returned a path of two moves that are
\* not the same move twice
SimpleSolutionReachesGoalWitness ==
    /\ last_call.name = "_depth_limited_simple_search"
    /\ Len(last_call.ret.path) = 2
    /\ last_call.ret.path[1] # last_call.ret.path[2]

\* C5: whenever _ida_star_search returns a non-empty path, the path applied
\* in order to the initial state reaches the goal state, its length is at
\* most the threshold of the iteration that found it and so at most
\* depth_ceiling, and solution_path holds exactly the moves of that path.
IdaStarPathIsBranch ==
    (last_call.name = "_ida_star_search" /\ Truthy(last_call.ret))
        => /\ Solves(last_call.initial_state, last_call.ret.path)
           /\ Len(last_call.ret.path) <= current_threshold
           /\ current_threshold <= depth_ceiling
           /\ solution_path = last_call.ret.path

\* _ida_star_search has returned two or more moves after abandoning branches
IdaStarPathIsBranchWitness ==
    /\ last_call.name = "_ida_star_search"
    /\ Len(last_call.ret.path) >= 2
    /\ nodes_expanded > Len(last_call.ret.path) + 1

\* C6: when the initial state is the goal state, every strategy entry point
\* returns the empty path (the searches with a timeout: when it has not expired).
GoalNeedsNoMoves ==
    (/\ last_call.name \in {"solve_puzzle", "_breadth_first_search",
                            "_breadth_first_search_with_timeout", "_bidirectional_search",
                            "_bidirectional_search_with_timeout", "_ida_star_search",
                            "solve_puzzle_simple"}
     /\ Goal(last_call.initial_state)
     /\ NotExpired)
        => last_call.ret = ResultPath(<<>>)

\* C7: _get_heuristic_value of the goal state is 0 under every knowledge
\* base, the empty one included.
HeuristicOfGoalIsZero ==
    (last_call.name = "_get_heuristic_value" /\ Goal(last_call.initial_state))
        => last_call.value = 0

\* C8: the heuristic is admissible: _get_heuristic_value(s) is an integer >= 0
\* that never exceeds the least number of moves from s to the goal.
HeuristicAdmissible ==
    last_call.name = "_get_heuristic_value"
        => /\ last_call.value \in Nat
           /\ Distance(last_call.initial_state) <= BallDepth
                 => last_call.value <= Distance(last_call.initial_state)

\* C9: with a knowledge base built from the goal to depth >= k and an initial
\* state at distance exactly k <= depth_ceiling, _ida_star_search returns a
\* path of length exactly k.
IdaStarOptimalWithinKnowledge ==
    \A k \in 0..Min2(KbDepth, BallDepth) :
        (/\ last_call.name = "_ida_star_search"
         /\ Distance(last_call.initial_state) = k
         /\ k <= depth_ceiling
         /\ \E e \in (k + 1)..(KbDepth + 1) :
                heuristic_db = KnowledgeBaseOf[PuzzleSize(last_call.initial_state)][e])
            => /\ last_call.ret.tag = "path"
               /\ Len(last_call.ret.path) = k

\* _ida_star_search has returned two moves for a state at distance 2 under
\* the knowledge base of depth 2
IdaStarOptimalWithinKnowledgeWitness ==
    /\ last_call.name = "_ida_star_search"
    /\ Distance(last_call.initial_state) = 2
    /\ heuristic_db = KnowledgeBaseOf[PuzzleSize(last_call.initial_state)][3]
    /\ Len(last_call.ret.path) = 2

\* C10: bounded BFS is complete and optimal within max_depth: for an initial
\* state at distance d, _breadth_first_search (and the timeout variant when
\* the timeout does not expire) returns a path of length exactly d that
\* reaches the goal when d <= max_depth and None when d > max_depth; for a
\* single move m, the search to depth 1 from the goal moved by m returns
\* the inverse of m.
BfsCompleteAndOptimal ==
    (/\ last_call.name \in {"_breadth_first_search", "_breadth_first_search_with_timeout"}
     /\ NotExpired)
        => LET d == Distance(last_call.initial_state)
               n == PuzzleSize(last_call.initial_state)
           IN /\ (d <= BallDepth /\ d <= last_call.max_depth)
                    => /\ last_call.ret.tag = "path"
                       /\ Len(last_call.ret.path) = d
                       /\ Solves(last_call.initial_state, last_call.ret.path)
              /\ d > last_call.max_depth => last_call.ret = ResultNone
              /\ \A m \in PuzzleMoves(n) :
                     (/\ last_call.initial_state = Rotate(CubicPuzzle(n), m[1], m[2], m[3])
                      /\ last_call.max_depth = 1)
                        => last_call.ret = ResultPath(<<<<m[1], m[2], 1 - m[3]>>>>)

\* a BFS to depth 2 has returned two moves
BfsCompleteAndOptimalWitness ==
    /\ last_call.name \in {"_breadth_first_search", "_breadth_first_search_with_timeout"}
    /\ last_call.max_depth = 2
    /\ Len(last_call.ret.path) = 2

(***************************************************************************)
(* The move catalog on its own: _generate_all_moves and _get_inverse_move  *)
(* are called, any number of times, for the sizes 1..MaxCatalogSize.       *)
(***************************************************************************)
MaxCatalogSize == 5

\* The record of a catalog call: value is puzzle_size, meet.move the argument
\* of _get_inverse_move, ret the returned list (or the returned move, as a
\* list of one).
GenerateAllMoves ==
    \E puzzle_size \in 1..MaxCatalogSize :
        /\ last_call' = [Call("_generate_all_moves", <<>>) EXCEPT
                            !.value = puzzle_size,
                            !.ret = ResultPath(_generate_all_moves(puzzle_size))]
        /\ Becomes(Self)

GetInverseMove ==
    \E puzzle_size \in 1..MaxCatalogSize :
        \E move \in Range(_generate_all_moves(puzzle_size)) :
            /\ last_call' = [Call("_get_inverse_move", <<>>) EXCEPT
                                !.value = puzzle_size, !.meet.move = move,
                                !.ret = ResultPath(<<_get_inverse_move(move)>>)]
            /\ Becomes(Self)

NextCatalog ==
    \/ GenerateAllMoves
    \/ GetInverseMove

SpecCatalog == Init /\ [][NextCatalog]_vars

\* C11: for every size n >= 1 the move catalog is a duplicate-free list of
\* exactly 6n moves, the same list on every call, and _get_inverse_move maps
\* the catalog onto itself as an involution: inverse(m) is in the catalog,
\* differs from m, and its inverse is m.
CatalogClosedUnderInverse ==
    /\ [](/\ last_call.name = "_generate_all_moves"
             => /\ Len(last_call.ret.path) = 6 * last_call.value
                /\ \A i, j \in DOMAIN last_call.ret.path :
                       last_call.ret.path[i] = last_call.ret.path[j] => i = j
          /\ last_call.name = "_get_inverse_move"
             => /\ last_call.ret.path[1] \in Range(_generate_all_moves(last_call.value))
                /\ last_call.ret.path[1] # last_call.meet.move
                /\ _get_inverse_move(last_call.ret.path[1]) = last_call.meet.move)
    /\ [][(/\ last_call.name = "_generate_all_moves"
           /\ last_call'.name = "_generate_all_moves"
           /\ last_call'.value = last_call.value)
              => last_call'.ret = last_call.ret]_vars

\* the catalog of a size with inner layers has been returned
CatalogClosedUnderInverseWitness ==
    /\ last_call.name = "_generate_all_moves"
    /\ last_call.value = 3
    /\ Len(last_call.ret.path) = 18

(***************************************************************************)
(* The transition cache near its capacity: an engine that has already      *)
(* served max_cache_size - CacheHeadroom .. max_cache_size misses goes on  *)
(* serving _get_next_state calls, hits and misses.                         *)
(***************************************************************************)
CacheHeadroom == 2

MaxCacheCalls == 3

\* the calls made: keys stored early (the first of all, the last and the first
\* around the end of the first quarter), the key stored last before the
\* capacity, and keys never stored
Probes ==
    {1, max_cache_size \div 4, (max_cache_size \div 4) + 1, max_cache_size - CacheHeadroom}
        \cup (max_cache_size + 1)..(max_cache_size + MaxCacheCalls)

InitCache ==
    /\ \E depth_limit \in DepthLimits,
          count \in (max_cache_size - CacheHeadroom)..max_cache_size :
           Constructed([__init__(<<>>, depth_limit) EXCEPT !.move_cache.served = <<1, count>>])
    /\ last_call = NoCall

\* value counts the calls made; ret holds the returned state
GetNextState ==
    /\ last_call.value < MaxCacheCalls
    /\ \E k \in Probes :
           Bind(_get_next_state(Self, ServedKey(k)[1], ServedKey(k)[2]), LAMBDA r :
               /\ Becomes(r.self)
               /\ last_call' = [Call("_get_next_state", ServedKey(k)[1]) EXCEPT
                                   !.meet.move = ServedKey(k)[2],
                                   !.value = last_call.value + 1,
                                   !.ret = ResultPath(r.ret)])

NextCache == GetNextState

SpecCache == InitCache /\ [][NextCache]_vars

\* C12: after any sequence of _get_next_state calls, hits and misses, the
\* number of entries in move_cache never exceeds the capacity of 50,000.
CacheWithinCapacity == CacheLen(move_cache) <= max_cache_size

\* misses alone have filled the cache, and the next miss has been served
CacheWithinCapacityWitness ==
    /\ last_call.name = "_get_next_state"
    /\ cache_hits = 0
    /\ CacheLen(move_cache) = max_cache_size - (max_cache_size \div 4) + 1

\* C19: eviction is by insertion order, not recency of use: a hit leaves the
\* cache and the order of its entries as they are, and a miss on a cache
\* holding max_cache_size entries removes exactly the max_cache_size \div 4
\* entries inserted earliest, keeps every later entry in its place and stores
\* the new entry last, leaving max_cache_size - max_cache_size \div 4 + 1 entries.
EvictionByInsertionOrder ==
    [][last_call'.name = "_get_next_state" =>
          /\ CacheHas(move_cache, <<last_call'.initial_state, last_call'.meet.move>>)
                => /\ move_cache' = move_cache
                   /\ cache_hits' = cache_hits + 1
          /\ (/\ ~CacheHas(move_cache, <<last_call'.initial_state, last_call'.meet.move>>)
              /\ CacheLen(move_cache) = max_cache_size)
                => /\ CacheKeys(move_cache') =
                          Append(SubSeq(CacheKeys(move_cache), (max_cache_size \div 4) + 1,
                                        max_cache_size),
                                 <<last_call'.initial_state, last_call'.meet.move>>)
                   /\ CacheLen(move_cache') = max_cache_size - (max_cache_size \div 4) + 1
                   /\ CacheLookup(move_cache',
                                  <<last_call'.initial_state, last_call'.meet.move>>) =
                          last_call'.ret.path]_vars

\* an entry stored early was hit, and the next miss on the full cache evicted it
EvictionByInsertionOrderWitness ==
    /\ last_call.name = "_get_next_state"
    /\ cache_hits = 1
    /\ CacheLen(move_cache) = max_cache_size - (max_cache_size \div 4) + 1
    /\ ~CacheHas(move_cache, ServedKey(1))
    /\ CacheKeys(move_cache)[1] = ServedKey((max_cache_size \div 4) + 1)

(***************************************************************************)
(* The knowledge base builder: construct_heuristic_database is called for  *)
(* the goal of a size, to a depth of 0..KbDepth, without or with an        *)
(* existing knowledge base, and an engine is constructed on the result.    *)
(***************************************************************************)
\* The existing_knowledge arguments: None, and the mappings {}; the knowledge
\* bases built before for the size; the last but one of them with every
\* distance one too high; one built around a state one move from the goal.
ExistingKnowledge(n) ==
    {NoKnowledge}
        \cup {[given |-> TRUE, db |-> mapping] : mapping \in
                 {<<>>}
                    \cup {KnowledgeBaseOf[n][e] : e \in 1..(KbDepth + 1)}
                    \cup {[state \in DOMAIN KnowledgeBaseOf[n][KbDepth] |->
                              KnowledgeBaseOf[n][KbDepth][state] + 1]}
                    \cup {construct_heuristic_database(
                              _apply_move(CubicPuzzle(n), _generate_all_moves(n)[1]),
                              _generate_all_moves(n), 1, NoKnowledge)}}

\* the caller is about to build
InitBuild ==
    /\ Constructed(__init__(<<>>, MaxDepthLimit))
    /\ \E n \in Sizes, exploration_depth \in 0..KbDepth :
           \E existing_knowledge \in ExistingKnowledge(n) :
               last_call = [name |-> "construct_heuristic_database",
                            target_state |-> CubicPuzzle(n),
                            exploration_depth |-> exploration_depth,
                            existing_knowledge |-> existing_knowledge,
                            returned |-> FALSE, ret |-> <<>>,
                            existing_after |-> existing_knowledge]

\* knowledge_db = construct_heuristic_database(...); AdaptiveSearchEngine(knowledge_db)
ConstructHeuristicDatabase ==
    /\ last_call.name = "construct_heuristic_database"
    /\ ~last_call.returned
    /\ Bind(ConstructRun(last_call.target_state,
                         _generate_all_moves(PuzzleSize(last_call.target_state)),
                         last_call.exploration_depth, last_call.existing_knowledge),
            LAMBDA r :
                /\ Becomes(__init__(r.ret, depth_ceiling))
                /\ last_call' = [last_call EXCEPT !.returned = TRUE, !.ret = r.ret,
                                                  !.existing_after = r.existing_knowledge])

NextBuild == ConstructHeuristicDatabase

SpecBuild == InitBuild /\ [][NextBuild]_vars

Built == last_call.name = "construct_heuristic_database" /\ last_call.returned

\* the entries of the returned mapping that the build wrote
Written ==
    {state \in DOMAIN last_call.ret :
        \/ ~last_call.existing_knowledge.given
        \/ state \notin DOMAIN last_call.existing_knowledge.db
        \/ last_call.existing_knowledge.db[state] # last_call.ret[state]}

\* C13: every distance a build of depth d writes lies in 0..d; a build from
\* scratch returns a mapping whose values are all <= d, and for d = 0
\* exactly {goal: 0}.
WrittenDistancesWithinDepth ==
    Built =>
        /\ \A state \in Written : last_call.ret[state] \in 0..last_call.exploration_depth
        /\ ~last_call.existing_knowledge.given =>
              /\ \A state \in DOMAIN last_call.ret :
                     last_call.ret[state] <= last_call.exploration_depth
              /\ last_call.exploration_depth = 0 =>
                     last_call.ret = (last_call.target_state :> 0)

\* a build of depth 0 from scratch has returned
WrittenDistancesWithinDepthWitness ==
    /\ Built
    /\ ~last_call.existing_knowledge.given
    /\ last_call.exploration_depth = 0
    /\ DOMAIN last_call.ret = {last_call.target_state}

\* C14: in the returned mapping the goal maps to 0, whatever the depth and
\* whatever the existing mapping, one without an entry for the goal included.
GoalMapsToZero ==
    Built => /\ last_call.target_state \in DOMAIN last_call.ret
             /\ last_call.ret[last_call.target_state] = 0

\* C20: with an existing knowledge base the build is a monotonic merge: every
\* state of existing is in the returned mapping with a distance no larger, so
\* an entry that differs is new or strictly smaller, and the caller's
\* existing mapping is after the call what it was before.
MonotonicMerge ==
    (Built /\ last_call.existing_knowledge.given) =>
        /\ \A state \in DOMAIN last_call.existing_knowledge.db :
               /\ state \in DOMAIN last_call.ret
               /\ last_call.ret[state] <= last_call.existing_knowledge.db[state]
        /\ \A state \in Written :
               \/ state \notin DOMAIN last_call.existing_knowledge.db
               \/ last_call.ret[state] < last_call.existing_knowledge.db[state]
        /\ last_call.existing_after = last_call.existing_knowledge

\* a build on an existing knowledge base has lowered a distance and added a state
MonotonicMergeWitness ==
    /\ Built
    /\ last_call.existing_knowledge.given
    /\ \E state \in DOMAIN last_call.existing_knowledge.db :
           last_call.ret[state] < last_call.existing_knowledge.db[state]
    /\ \E state \in DOMAIN last_call.ret : state \notin DOMAIN last_call.existing_knowledge.db

\* the layers _bidirectional_search may expand in each direction
LayerLimit == Min2(depth_ceiling \div 2, BidirectionalLayerCap)

\* the states within `layers` layers of one state: 1 + b + ... + b^(layers - 1)
LayerStates(layers) ==
    Bind(Len(_generate_all_moves(BidirectionalSize)), LAMBDA b :
        (Power(b, layers) - 1) \div (b - 1))

Fresh == __init__(heuristic_db, depth_ceiling)

TimeoutToldApartFromExhaustion ==
    (/\ last_call.name \in {"_breadth_first_search_with_timeout",
                            "_bidirectional_search_with_timeout", "solve_puzzle_simple"}
     /\ ~NotExpired)
        => last_call.ret # _breadth_first_search_with_timeout(
                                __init__(<<>>, MaxDepthLimit),
                                Scrambled(1, <<_generate_all_moves(1)[1]>>), 0, Never).ret

(***************************************************************************)
(* Two _ida_star_search calls on one engine, run by two threads.  The      *)
(* engine fields are shared; a thread owns its initial state, its place in *)
(* _ida_star_search (pc) and the call stack of                             *)
(* _depth_limited_search_optimized.  The threads are interleaved between   *)
(* the steps: the prologue of _ida_star_search, the head of its loop with  *)
(* the outermost call, one pass of the innermost moves loop, and the tail  *)
(* of the loop.  A KeyError of visited_states.remove or an IndexError of   *)
(* solution_path.pop ends the call with the exception.                     *)
(***************************************************************************)
MaxThreadMoves == 2

Thread(initial_state) ==
    [initial_state |-> initial_state, pc |-> "begin", stack |-> <<>>, found |-> FALSE,
     ret |-> ResultNone]

\* two threads, each given the size-1 goal after the first 1..MaxThreadMoves
\* moves of the long scramble
InitThreads ==
    /\ \E depth_limit \in DepthLimits : Constructed(__init__(<<>>, depth_limit))
    /\ \E first \in 1..MaxThreadMoves, second \in 1..MaxThreadMoves :
           last_call = [name |-> "threads",
                        calls |-> <<Thread(Scrambled(1, SubSeq(LongScramble(1), 1, first))),
                                    Thread(Scrambled(1, SubSeq(LongScramble(1), 1, second)))>>]

\* thread t goes on from `thread`, the engine fields being those of self
Resumes(t, self, thread) ==
    /\ Becomes(self)
    /\ last_call' = [last_call EXCEPT !.calls[t] = thread]

\* _ida_star_search up to its loop
IdaBegin(t) ==
    /\ last_call.calls[t].pc = "begin"
    /\ Bind(_get_heuristic_value([Self EXCEPT !.visited_states = {}, !.solution_path = <<>>],
                                 last_call.calls[t].initial_state), LAMBDA initial_h :
            Resumes(t, [initial_h.self EXCEPT !.current_threshold = Max2(initial_h.ret, 1),
                                              !.next_threshold = Infinity],
                    [last_call.calls[t] EXCEPT !.pc = "while"]))

\* the loop test and the outermost _depth_limited_search_optimized call, up
\* to its moves loop
IdaIterate(t) ==
    /\ last_call.calls[t].pc = "while"
    /\ IF current_threshold > depth_ceiling
       THEN Resumes(t, Self, [last_call.calls[t] EXCEPT !.pc = "done",
                                                        !.ret = ResultPath(<<>>)])
       ELSE Bind(DlsEnter(Self, last_call.calls[t].initial_state, 0, <<>>), LAMBDA root :
                Resumes(t, root.self,
                        IF root.outcome = "expand"
                        THEN [last_call.calls[t] EXCEPT !.pc = "search",
                                                        !.stack = <<root.frame>>]
                        ELSE [last_call.calls[t] EXCEPT !.pc = "after",
                                                        !.found = root.outcome = "true"]))

\* one pass of the innermost moves loop
SearchStep(t) ==
    /\ last_call.calls[t].pc = "search"
    /\ Bind(last_call.calls[t].stack, LAMBDA stack :
        IF stack[Len(stack)].i > Len(stack[Len(stack)].moves)
              /\ stack[Len(stack)].key \notin visited_states
        THEN Resumes(t, Self, [last_call.calls[t] EXCEPT !.pc = "done", !.stack = <<>>,
                                                         !.ret = [tag |-> "KeyError",
                                                                  path |-> <<>>]])
        ELSE IF stack[Len(stack)].i > Len(stack[Len(stack)].moves)
                   /\ Len(stack) > 1 /\ solution_path = <<>>
        THEN Resumes(t, [Self EXCEPT !.visited_states = @ \ {stack[Len(stack)].key}],
                     [last_call.calls[t] EXCEPT !.pc = "done", !.stack = <<>>,
                                                !.ret = [tag |-> "IndexError", path |-> <<>>]])
        ELSE Bind(DlsStep([self |-> Self, stack |-> stack, done |-> FALSE, ret |-> FALSE]),
                  LAMBDA st :
                 Resumes(t, st.self,
                         IF st.done
                         THEN [last_call.calls[t] EXCEPT !.pc = "after", !.stack = <<>>,
                                                         !.found = st.ret]
                         ELSE [last_call.calls[t] EXCEPT !.stack = st.stack])))

\* the rest of the loop body
IdaAfter(t) ==
    /\ last_call.calls[t].pc = "after"
    /\ IF last_call.calls[t].found
       THEN Resumes(t, Self, [last_call.calls[t] EXCEPT !.pc = "done",
                                                        !.ret = ResultPath(solution_path)])
       ELSE IF next_threshold = Infinity
       THEN Resumes(t, Self, [last_call.calls[t] EXCEPT !.pc = "done",
                                                        !.ret = ResultPath(<<>>)])
       ELSE Resumes(t, [Self EXCEPT !.solution_path = <<>>, !.visited_states = {},
                                    !.current_threshold = next_threshold.val,
                                    !.next_threshold = Infinity],
                    [last_call.calls[t] EXCEPT !.pc = "while"])

NextThreads ==
    \E t \in DOMAIN last_call.calls :
        \/ IdaBegin(t)
        \/ IdaIterate(t)
        \/ SearchStep(t)
        \/ IdaAfter(t)

SpecThreads == InitThreads /\ [][NextThreads]_vars

\* C17: two _ida_star_search calls interleaved on one engine do not affect
\* each other: each returns what it returns when it runs alone on the engine
\* as constructed.
InterleavedSolvesIndependent ==
    \A t \in DOMAIN last_call.calls :
        last_call.calls[t].pc = "done"
            => last_call.calls[t].ret
                   = _ida_star_search(Fresh, last_call.calls[t].initial_state).ret

(***************************************************************************)
(* One _ida_star_search call on its own, step by step: the thread steps    *)
(* above with a single caller.  The interpreter goes on executing a call   *)
(* that has not returned: weak fairness of the steps, WF_vars(NextThreads),*)
(* written with the condition under which a step is enabled (the call has  *)
(* not returned) in place of ENABLED.                                      *)
(***************************************************************************)
InitIda ==
    \E n \in Sizes, depth_limit \in 1..MaxDepthLimit :
        \E knowledge_db \in {<<>>, KnowledgeBaseOf[n][2]}, scramble \in Shallow(n) :
            /\ Constructed(__init__(knowledge_db, depth_limit))
            /\ last_call = [name |-> "threads", calls |-> <<Thread(Scrambled(n, scramble))>>]

SpecIda ==
    /\ InitIda
    /\ [][NextThreads]_vars
    /\ \/ []<>(\A t \in DOMAIN last_call.calls : last_call.calls[t].pc = "done")
       \/ []<><<NextThreads>>_vars

\* C22: the first threshold is max(heuristic(initial), 1); within an iteration
\* next_threshold is the smallest f = g + h among the nodes pruned so far for
\* f > threshold (inf while there is none), so the threshold of the next
\* iteration is strictly greater; no iteration runs with a threshold above
\* depth_ceiling; _ida_star_search returns [] once the next threshold exceeds
\* depth_ceiling or no node was pruned; and the call returns.  (top is the
\* innermost _depth_limited_search_optimized call, f the g + h of the node
\* its next move leads to.)
ThresholdsRiseToCeiling ==
    /\ [][\A t \in DOMAIN last_call.calls :
            LET call == last_call.calls[t]
                after == last_call.calls[t]'
                top == call.stack[Len(call.stack)]
                f == top.g + 1
                     + _get_heuristic_value(Self, _apply_move(top.state, top.moves[top.i])).ret
            IN /\ call.pc = "begin" =>
                      /\ current_threshold'
                             = Max2(_get_heuristic_value(Self, call.initial_state).ret, 1)
                      /\ next_threshold' = Infinity
               /\ call.pc = "while" =>
                      IF current_threshold > depth_ceiling
                      THEN /\ after.pc = "done"
                           /\ after.ret = ResultPath(<<>>)
                           /\ nodes_expanded' = nodes_expanded
                      ELSE /\ nodes_expanded' = nodes_expanded + 1
                           /\ next_threshold' = next_threshold
                           /\ current_threshold' = current_threshold
               /\ call.pc = "search" =>
                      /\ current_threshold' = current_threshold
                      /\ current_threshold <= depth_ceiling
                      /\ next_threshold' =
                             IF top.i <= Len(top.moves) /\ f > current_threshold
                             THEN IF next_threshold.kind = "int"
                                  THEN Finite(Min2(next_threshold.val, f))
                                  ELSE Finite(f)
                             ELSE next_threshold
               /\ (call.pc = "after" /\ ~call.found) =>
                      IF next_threshold = Infinity
                      THEN after.pc = "done" /\ after.ret = ResultPath(<<>>)
                      ELSE /\ after.pc = "while"
                           /\ current_threshold' = next_threshold.val
                           /\ current_threshold' > current_threshold
                           /\ next_threshold' = Infinity]_vars
    /\ <>(\A t \in DOMAIN last_call.calls : last_call.calls[t].pc = "done")

\* after a failed iteration the call has given up with [] on a threshold
\* above depth_ceiling
ThresholdsRiseToCeilingWitness ==
    /\ Len(last_call.calls) = 1
    /\ last_call.calls[1].pc = "done"
    /\ last_call.calls[1].ret = ResultPath(<<>>)
    /\ current_threshold > depth_ceiling
    /\ nodes_expanded > 1

(***************************************************************************)
(* _breadth_first_search_with_timeout on puzzles deep enough for the clock *)
(* to be read again (the long scrambles of the sizes below 3, where a      *)
(* search to depth 2 dequeues more than 1000 entries); a timeout lets up   *)
(* to MaxReads reads find the deadline not passed.                         *)
(***************************************************************************)
MaxReads == 2

BreadthFirstSearchWithDeadline ==
    /\ last_call = NoCall
    /\ \E n \in Sizes : \E scramble \in IF n < BidirectionalSize THEN Scrambles(n)
                                          ELSE Shallow(n),
                           max_depth \in 0..MaxBfsDepth,
                           timeout \in {Never} \cup (0..MaxReads) :
           LET initial_state == Scrambled(n, scramble)
           IN ReturnsTimed([Call("_breadth_first_search_with_timeout", initial_state) EXCEPT
                               !.max_depth = max_depth, !.timeout = timeout],
                           _breadth_first_search_with_timeout(Self, initial_state,
                                                              max_depth, timeout))

SpecClock == Init /\ [][BreadthFirstSearchWithDeadline]_vars

\* C23: _breadth_first_search_with_timeout reads the clock exactly when the
\* number of dequeues so far is a multiple of 1000 (0 included); it gives up
\* at the first read that finds the deadline passed, so no more than 1000
\* dequeues after the last read that found it not passed; and it returns
\* None or a path that reaches the goal.
ClockReadEveryThousand ==
    last_call.name = "_breadth_first_search_with_timeout" =>
        /\ IF NotExpired
           THEN last_call.reads = ((nodes_expanded - 1) \div ClockPeriod) + 1
           ELSE /\ last_call.reads = last_call.timeout + 1
                /\ nodes_expanded = ClockPeriod * last_call.timeout
                /\ last_call.ret = ResultNone
        /\ last_call.ret.tag = "path" => Solves(last_call.initial_state, last_call.ret.path)

\* the deadline passed after the first read, and the search gave up at the
\* second, 1000 dequeues into the search
ClockReadEveryThousandWitness ==
    /\ last_call.name = "_breadth_first_search_with_timeout"
    /\ last_call.timeout = 1
    /\ last_call.reads = 2
    /\ nodes_expanded = ClockPeriod
    /\ last_call.ret = ResultNone

(***************************************************************************)
(* Estimators that fail.  `failing` names the fallback estimators in which *)
(* sampling the puzzle raises an exception on the state evaluated.         *)
(* _get_heuristic_value calls the three estimators one after the other     *)
(* with no handler around them, and so do its callers: a result is         *)
(* [tag |-> "value"] with the returned value, or [tag |-> "Exception"].    *)
(***************************************************************************)
\* _get_heuristic_value(state) when the estimators of `failing` raise
HeuristicOrRaise(self, state, failing) ==
    IF state \in DOMAIN self.heuristic_db \/ failing = {}
    THEN Bind(_get_heuristic_value(self, state), LAMBDA h :
             [self |-> h.self, ret |-> [tag |-> "value", value |-> h.ret]])
    ELSE [self |-> self, ret |-> [tag |-> "Exception", value |-> 0]]

GetHeuristicValueSampling ==
    /\ last_call = NoCall
    /\ \E n \in Sizes : \E scramble \in Scrambles(n) \cup Singles(n),
                           failing \in SUBSET {"manhattan", "corner", "edge"} :
           Bind(HeuristicOrRaise(Self, Scrambled(n, scramble), failing), LAMBDA r :
               /\ Becomes(r.self)
               /\ last_call' = [name |-> "_get_heuristic_value",
                                initial_state |-> Scrambled(n, scramble),
                                failing |-> failing, ret |-> r.ret])

\* _ida_star_search(initial_state), whose first evaluation is that of the
\* initial state (a state outside the knowledge base when estimators fail)
IdaStarSearchSampling ==
    /\ last_call = NoCall
    /\ \E n \in Sizes : \E scramble \in Shallow(n),
                           failing \in SUBSET {"manhattan", "corner", "edge"} :
           /\ failing # {} => Scrambled(n, scramble) \notin DOMAIN heuristic_db
           /\ Bind(HeuristicOrRaise([Self EXCEPT !.visited_states = {},
                                                 !.solution_path = <<>>],
                                    Scrambled(n, scramble), failing), LAMBDA initial_h :
               Bind(IF initial_h.ret.tag = "Exception"
                    THEN initial_h
                    ELSE Bind(_ida_star_search(Self, Scrambled(n, scramble)), LAMBDA r :
                             [self |-> r.self,
                              ret |-> [tag |-> "value", value |-> r.ret.path]]),
                    LAMBDA r :
                   /\ Becomes(r.self)
                   /\ last_call' = [name |-> "_ida_star_search",
                                    initial_state |-> Scrambled(n, scramble),
                                    failing |-> failing, ret |-> r.ret]))

SpecEstimators == InitKb /\ [][GetHeuristicValueSampling \/ IdaStarSearchSampling]_vars

\* C24: a failure inside a fallback estimator does not abort the evaluation
\* or the search that asked for it: no exception comes out of
\* _get_heuristic_value or of the strategy, the failing estimator counts as 0
\* and the heuristic is the maximum of the others.
EstimatorFailureContained ==
    last_call.name \in {"_get_heuristic_value", "_ida_star_search"} =>
        /\ last_call.ret.tag # "Exception"
        /\ (/\ last_call.name = "_get_heuristic_value"
            /\ last_call.initial_state \notin DOMAIN heuristic_db)
              => last_call.ret.value =
                   Max2(Max2(IF "manhattan" \in last_call.failing THEN 0
                             ELSE _manhattan_distance_heuristic(last_call.initial_state),
                             IF "corner" \in last_call.failing THEN 0
                             ELSE _corner_heuristic(last_call.initial_state)),
                        IF "edge" \in last_call.failing THEN 0
                        ELSE _edge_heuristic(last_call.initial_state))

BidirectionalBegins ==
    /\ last_call = NoCall
    /\ \E n \in Sizes : \E scramble \in Scrambles(n) \cup Singles(n),
                           name \in {"_bidirectional_search",
                                     "_bidirectional_search_with_timeout"} :
           /\ Scrambled(n, scramble) # CubicPuzzle(BidirectionalSize)
           /\ last_call' = [name |-> name, initial_state |-> Scrambled(n, scramble),
                            forward_frontier |-> <<<<Scrambled(n, scramble), <<>>>>>>,
                            backward_frontier |-> <<<<CubicPuzzle(BidirectionalSize), <<>>>>>>,
                            all_moves |-> _generate_all_moves(BidirectionalSize)]
    /\ nodes_expanded' = nodes_expanded + 1
    /\ UNCHANGED <<heuristic_db, depth_ceiling, current_threshold, next_threshold,
                   solution_path, visited_states, move_cache, cache_hits, heuristic_hits>>

\* the BFS searches and the simple fallback, up to the moves loop of their
\* first node
SearchBegins ==
    /\ last_call = NoCall
    /\ \E n \in Sizes : \E scramble \in Scrambles(n) \cup Singles(n),
                           name \in {"_breadth_first_search", "_depth_limited_simple_search",
                                     "_breadth_first_search_with_timeout"} :
           /\ ~is_completion_achieved(Scrambled(n, scramble))
           /\ nodes_expanded' = IF name = "_depth_limited_simple_search"
                                THEN nodes_expanded ELSE nodes_expanded + 1
           /\ last_call' = [name |-> name, initial_state |-> Scrambled(n, scramble),
                            all_moves |->
                                IF name = "_breadth_first_search_with_timeout"
                                THEN _generate_ordered_moves(
                                         Self, PuzzleSize(Scrambled(n, scramble)),
                                         <<>>, <<>>).ret
                                ELSE _generate_all_moves(PuzzleSize(Scrambled(n, scramble)))]
    /\ UNCHANGED <<heuristic_db, depth_ceiling, current_threshold, next_threshold,
                   solution_path, visited_states, move_cache, cache_hits, heuristic_hits>>

SpecSized == Init /\ [][BidirectionalBegins \/ SearchBegins]_vars

\* C26: every strategy works over the catalog and the goal of the initial
\* state's own size n: the moves it enumerates are exactly the 6n moves of
\* size n, and the backward frontier of a bidirectional search is rooted at
\* the goal state of size n.
StrategiesUseOwnSize ==
    last_call # NoCall =>
        LET n == PuzzleSize(last_call.initial_state)
        IN /\ Range(last_call.all_moves) = PuzzleMoves(n)
           /\ Len(last_call.all_moves) = 6 * n
           /\ last_call.name \in {"_bidirectional_search",
                                  "_bidirectional_search_with_timeout"}
                 => FrontierKeys(last_call.backward_frontier) = {CubicPuzzle(n)}

(***************************************************************************)
(* A bidirectional search layer by layer: last_call.st is the search's     *)
(* loop state between two passes of `for depth in range(max_depth):`.  The *)
(* visited sets of a pass only grow, so what they hold at any point of the *)
(* pass is among what they hold at its end.                                *)
(***************************************************************************)
\* the call up to its layers loop
BidirectionalStarts ==
    /\ last_call = NoCall
    /\ \E scramble \in Scrambles(BidirectionalSize) \cup Singles(BidirectionalSize),
          timeout \in Timeouts, with_timeout \in BOOLEAN :
           /\ ~with_timeout => timeout = Never
           /\ Scrambled(BidirectionalSize, scramble) # CubicPuzzle(BidirectionalSize)
           /\ last_call' =
                 [name |-> "layers",
                  initial_state |-> Scrambled(BidirectionalSize, scramble),
                  with_timeout |-> with_timeout, timeout |-> timeout,
                  max_depth |-> IF with_timeout THEN TimeoutLayers
                                ELSE Min2(depth_ceiling \div 2, BidirectionalLayerCap),
                  st |-> [self |-> Self,
                          forward_frontier |->
                              <<<<Scrambled(BidirectionalSize, scramble), <<>>>>>>,
                          backward_frontier |-> <<<<CubicPuzzle(BidirectionalSize), <<>>>>>>,
                          forward_visited |-> {Scrambled(BidirectionalSize, scramble)},
                          backward_visited |-> {CubicPuzzle(BidirectionalSize)},
                          new_frontier |-> <<>>, depth |-> 0, k |-> 1, i |-> 1, reads |-> 0,
                          returned |-> FALSE, ret |-> ResultNone, meet |-> NoMeet,
                          done |-> FALSE]]
    /\ UNCHANGED <<heuristic_db, depth_ceiling, current_threshold, next_threshold,
                   solution_path, visited_states, move_cache, nodes_expanded, cache_hits,
                   heuristic_hits>>

\* one pass of the layers loop
BidirectionalLayer ==
    /\ last_call # NoCall
    /\ ~last_call.st.done
    /\ Bind(BidiLayerStep(last_call.st, last_call.with_timeout, last_call.max_depth,
                          last_call.timeout), LAMBDA st :
           /\ Becomes(st.self)
           /\ last_call' = [last_call EXCEPT !.st = st])

SpecMeet == Init /\ [][BidirectionalStarts \/ BidirectionalLayer]_vars

\* C28: in both bidirectional searches the forward and the backward visited
\* sets are disjoint at every point of the run, the states of a frontier are
\* among the visited states of its side, and a newly generated state found in
\* the opposite visited set is a key of the opposite side's current frontier:
\* _find_path_in_frontier returns the path recorded for it, which is empty
\* only for the root of that frontier.
MeetingsAreFrontierKeys ==
    last_call # NoCall =>
        LET st == last_call.st
            solved_state == CubicPuzzle(BidirectionalSize)
            root == IF st.meet.phase = "forward" THEN solved_state
                    ELSE last_call.initial_state
            from == IF st.meet.phase = "forward" THEN last_call.initial_state
                    ELSE solved_state
            other == IF st.meet.phase = "forward" THEN st.backward_frontier
                     ELSE st.forward_frontier
            meeting == ApplyPath(from, Append(st.meet.path, st.meet.move))
        IN /\ st.forward_visited \cap st.backward_visited = {}
           /\ FrontierKeys(st.forward_frontier) \subseteq st.forward_visited
           /\ FrontierKeys(st.backward_frontier) \subseteq st.backward_visited
           /\ st.returned <=> st.meet.phase # "none"
           /\ st.returned =>
                 /\ st.meet.keyed
                 /\ meeting \in FrontierKeys(other)
                 /\ st.meet.found = _find_path_in_frontier(meeting, other)
                 /\ st.meet.found = <<>> => meeting = root

\* a backward phase after the first layer has generated a state of the
\* forward visited set, and the forward frontier holds a path for it
MeetingsAreFrontierKeysWitness ==
    /\ last_call # NoCall
    /\ last_call.st.returned
    /\ last_call.st.meet.phase = "backward"
    /\ last_call.st.depth >= 1
    /\ last_call.st.meet.found # <<>>
    /\ last_call.st.meet.keyed

\* C29: extending a knowledge base deepens it: a build to depth d2 on the
\* knowledge base built from scratch to a depth d1 < d2 returns the mapping of
\* the build from scratch to depth d2.
ExtensionDeepens ==
    (/\ Built
     /\ last_call.existing_knowledge.given
     /\ \E d1 \in 0..KbDepth :
            /\ d1 < last_call.exploration_depth
            /\ last_call.existing_knowledge.db
                  = KnowledgeBaseOf[PuzzleSize(last_call.target_state)][d1 + 1])
        => last_call.ret = KnowledgeBaseOf[PuzzleSize(last_call.target_state)]
                                          [last_call.exploration_depth + 1]

(***************************************************************************)
(* _bidirectional_search on a puzzle smaller than the size its code names. *)
(* The moves it applies are those of size 3, so the moves loop of the      *)
(* first node comes to a layer the puzzle has not after the moves of layer *)
(* 0..n-1 in direction 0: the puzzle either raises there, which ends the   *)
(* call, or lets the rotation pass.                                        *)
(***************************************************************************)
BidirectionalSearchSmaller ==
    /\ last_call = NoCall
    /\ \E n \in Sizes \ {BidirectionalSize} :
           \E scramble \in Shallow(n) \cup Singles(n), outcome \in {"IndexError", "ignored"} :
               LET initial_state == Scrambled(n, scramble)
                   entered == [self |-> [Self EXCEPT !.nodes_expanded = @ + 1],
                               forward_frontier |-> <<<<initial_state, <<>>>>>>,
                               backward_frontier |->
                                   <<<<CubicPuzzle(BidirectionalSize), <<>>>>>>,
                               forward_visited |-> {initial_state},
                               backward_visited |-> {CubicPuzzle(BidirectionalSize)},
                               new_frontier |-> <<>>, depth |-> 0, k |-> 1, i |-> 1,
                               reads |-> 0, returned |-> FALSE, ret |-> ResultNone,
                               meet |-> NoMeet, done |-> FALSE]
                   applied[i \in 0..n] ==
                       IF i = 0 THEN entered ELSE BidiMoveStep(applied[i - 1], "forward", FALSE)
               IN IF outcome = "IndexError"
                  THEN /\ Becomes(applied[n].self)
                       /\ last_call' = [Call("_bidirectional_search", initial_state) EXCEPT
                                           !.ret = [tag |-> "Exception", path |-> <<>>]]
                  ELSE ReturnsMeeting(Call("_bidirectional_search", initial_state),
                                      _bidirectional_search(Self, initial_state))

SpecSmaller == Init /\ [][BidirectionalSearchSmaller \/ BidirectionalSearch]_vars

\* C30: _bidirectional_search returns a shortest solution: for an initial
\* state d moves from the goal, 1 <= d <= 2 * min(depth_ceiling // 2, 8), it
\* returns a path of exactly d moves, found in a forward phase when d is odd
\* and in a backward phase when d is even.
BidirectionalShortest ==
    LET d == Distance(last_call.initial_state)
    IN (/\ last_call.name = "_bidirectional_search"
        /\ d >= 1
        /\ d <= BallDepth
        /\ d <= 2 * LayerLimit)
           => /\ last_call.ret.tag = "path"
              /\ Len(last_call.ret.path) = d
              /\ last_call.meet.phase = IF d % 2 = 1 THEN "forward" ELSE "backward"

================================================================================
